---- MODULE Spec2Model ----
(***************************************************************************)
(* PostBridge: the host/guest handshake and the RPC engine.                *)
(*                                                                         *)
(* One host context has called host.connect(guest, schema) for one guest   *)
(* endpoint (a worker, or an iframe with or without a declared src).  The  *)
(* guest context calls guest.connect(schema, options).  In the iframe case *)
(* the host listens on its own window, so any other window may post        *)
(* messages to it ("other").  Messages travel over one FIFO queue per      *)
(* direction.  Identifiers produced by generateId() are taken to be        *)
(* distinct (tests: "should generate unique IDs").                         *)
(***************************************************************************)
EXTENDS Integers, Sequences, FiniteSets, TLC

\* ------------------------------------------------------------------ bounds
MaxCalls == 3   \* calls made through remote proxies, both sides together
MaxClose == 2   \* close() invocations, both sides together
MaxItems == 2   \* elements of an array passed to echo
MaxKeyLen == 2  \* dot-separated parts of one property name of a schema
MaxDepth == 2   \* nesting depth of a schema
MaxLeaves == 2  \* leaves (functions and data) of a schema
MaxOps == 1     \* calls and page unloads of the tabs on their bridge connections, all tabs together
MaxSyncOps == 2 \* the same, for three tabs that share one channel
MaxTransfers == 2 \* calls of transfer in one withTransferable callback
MaxHubCalls == 2 \* remote calls on the connections of a host with two connect calls, both sides together

\* --------------------------------------------------------------- constants
HANDSHAKE_REQUEST == "POSTBRIDGE/HANDSHAKE_REQUEST"
HANDSHAKE_REPLY == "POSTBRIDGE/HANDSHAKE_REPLY"
RPC_REQUEST == "POSTBRIDGE/RPC_REQUEST"
RPC_RESOLVE == "POSTBRIDGE/RPC_RESOLVE"
RPC_REJECT == "POSTBRIDGE/RPC_REJECT"

Side == {"host", "guest"}
Peer(s) == IF s = "host" THEN "guest" ELSE "host"

\* The identifier generateId() gives the host connect call, and one no
\* connect call ever generated.
ConnID == "c1"
BogusID == "zz"

\* ------------------------------------------------------------------ values
\* JavaScript values that cross the boundary: numbers, Error instances, the
\* plain objects errors are serialized to, and undefined.
NoValue == [t |-> "none", n |-> 0, message |-> "", stack |-> ""]
Num(k) == [t |-> "number", n |-> k, message |-> "", stack |-> ""]
ErrorObj(msg, stk) == [t |-> "Error", n |-> 0, message |-> msg, stack |-> stk]
Undefined == [t |-> "undefined", n |-> 0, message |-> "", stack |-> ""]

\* ------------------------------------------------------------ origins, URLs
NoSrc == [protocol |-> "", hostname |-> "", port |-> ""]
ports(protocol) == IF protocol = "http:" THEN "80" ELSE IF protocol = "https:" THEN "443" ELSE "none"

\* getOriginFromURL on a URL already split by urlRegex into protocol,
\* hostname and port; the result is the origin <<protocol, hostname, suffix>>.
NullOrigin == [protocol |-> "null", hostname |-> "", port |-> ""]
getOriginFromURL(url) ==
  IF url = NoSrc THEN NullOrigin
  ELSE LET protocol == IF url.protocol = "" THEN "http:" ELSE url.protocol
       IN IF protocol = "file:"
          THEN [protocol |-> "file:", hostname |-> "", port |-> ""]
          ELSE [protocol |-> protocol, hostname |-> url.hostname,
                port |-> IF url.port # "" /\ url.port # ports(protocol) THEN url.port ELSE ""]

\* The origin the browser reports for the guest document and for other windows.
GuestOrigin == [protocol |-> "https:", hostname |-> "trusted.com", port |-> ""]
EvilOrigin == [protocol |-> "https:", hostname |-> "evil.com", port |-> ""]
Origins == {GuestOrigin, EvilOrigin}

\* Declared iframe sources: one that normalizes to the guest's origin, one on
\* another port, one protocol-relative (defaults to http:), and none.
SrcURLs ==
  { NoSrc,
    [protocol |-> "https:", hostname |-> "trusted.com", port |-> "443"],
    [protocol |-> "https:", hostname |-> "trusted.com", port |-> "8443"],
    [protocol |-> "", hostname |-> "trusted.com", port |-> ""] }

\* ----------------------------------------------------------------- schemas
\* Host: double(n, r) = 2 * await r.inc(n); fail() throws new Error("nope");
\* reject() returns Promise.reject() (throws undefined).
\* Guest: inc(n) = n + 1; slow(n) resolves to n after a delay.
HostSchema == {"double", "fail", "reject"}
GuestSchema == {"inc", "slow"}
extractMethods(s) == IF s = "host" THEN HostSchema ELSE GuestSchema

\* The arguments the applications pass: slow gets 30, 10, 20 in that order
\* (and again from 30), double and inc get 4, fail and reject get none.
SlowArgs == <<Num(30), Num(10), Num(20)>>
ArgsOf(name, k) ==
  CASE name = "slow" -> {SlowArgs[(k % Len(SlowArgs)) + 1]}
    [] name = "double" -> {Num(4)}
    [] name = "inc" -> {Num(4)}
    [] OTHER -> {Undefined}

\* The proxies the applications call on their connection's remote: the host
\* application calls slow (scenario S6), the guest application calls double,
\* fail and reject; inc is called back by double.
AppMethods(s) == IF s = "host" THEN {"slow"} ELSE {"double", "fail", "reject"}

\* How many call identifiers serving a call to `name` takes.
Need(name) == IF name = "double" THEN 2 ELSE 1

VARIABLES
  guestKind,     \* "worker" | "frame": what host.connect was given
  guestContext,  \* where guest.connect runs: "worker" | "frame" | "window" (a top-level page)
  frameSrc,      \* iframe.src, NoSrc when absent (and for workers)
  hook,          \* options.onConnectionSetup: "none", or the host method it awaits
  connections,   \* the host's global connections map (its keys)
  hostSendTo,    \* sendTo of the accepted handshake: "none" | "guest" | "other"
  remote,        \* per side: the remote tree (its proxied method names) and its connection ID
  listeners,     \* per side: the message listeners subscribed on listenTo
  hostConnect,   \* host connect promise: "pending" | "resolved"
  guestConnect,  \* guest connect promise: "idle" (not called) | "requested" | "hook" |
                 \* "resolved" | "rejected" | "failed" (an error escaped, never settled)
  chan,          \* per side: the messages posted to it and not yet dispatched
  calls,         \* the calls made through proxies; the call ID is the index
  execs,         \* method executions that have not returned yet
  served,        \* history: finished method executions and their replies
  hsReplies,     \* history: recipients of the host's HANDSHAKE_REPLY messages
  closed,        \* per side: number of close() invocations
  terminated     \* the worker was terminated

\* One call remote.echo(x) followed through createRPC and handleCall.
VARIABLES
  echoArg,       \* x, the value the caller passes
  echoCall,      \* the caller's promise: "idle" | "pending" | "resolved" | "rejected"
  echoWire,      \* the messages posted so far, in order
  echoResult     \* what the promise settled with

\* One call of a method whose result may carry transferables, followed
\* through withTransferable and handleCall.
VARIABLES
  xferPlan,      \* the method: whether it uses withTransferable, what its callback passes to transfer, its plain result
  xferStage,     \* "off" | "called" | "returned" | "replied"
  xferResult,    \* the object the method returned: [value, holds, marker]
  xferReply      \* the postMessageToTarget call of handleCall: [action, result, transfer]

\* A host with two connect calls, and the guests that can reach its listeners.
VARIABLES
  hubCfg,          \* the guests' kind, the guest each connect call was given, which frames have a src
  hubListeners,    \* the host's "message" listeners: [kind, k, callID], k the connect call
  hubConnections,  \* the keys of the host's connections map
  hubAccepted,     \* history, per connect call: the sender of the HANDSHAKE_REQUEST it accepted
  hubResolved,     \* per connect call: the sender of the message that resolved its promise
  hubIn,           \* messages posted to the host's listening endpoints, not yet dispatched
  hubOut,          \* per guest: messages the host posted to it, not yet dispatched
  hubRequested,    \* the guests that called connect
  hubGuestConns,   \* per guest: the connection IDs it registered handlers for
  hubTerminated,   \* the workers the host terminated
  hubCalls,        \* the host's remote calls: [k, callID, settled, by]
  hubRan,          \* history: handleCall invocations that ran the method: [k, connectionID, callID]
  hubNext          \* number of remote calls made so far

\* One schema followed through extractMethods and registerRemoteMethods.
VARIABLES
  schLocal,      \* the schema passed to connect: its leaves, in the order Object.keys visits them
  schWire,       \* the handshake payload built from it: [sent, methodNames, schema]
  schRemote,     \* the remote tree built by the peer: NoTree, or its leaves
  schMethods     \* the map extractMethods returned: its entries [name, fn], fn the leaf's path

\* The bridge: tabs connected through the SharedWorker relay.  A tab is named
\* by the MessagePort its connect call opened.
VARIABLES
  tabOptions,        \* per port: options.tabID and options.channel of the connect call
  tabState,          \* per port: "idle" | "handshaking" | "connected" | "rejected" | "closed" | "gone"
  sharedStateCache,  \* per port: the tab's sharedStateCache.counter, Absent when not set
  remoteFn,          \* per port: the own property counter of remoteFn, read by connection.remote.counter
  portIn,            \* per port: messages the tab posted, not yet handled by the relay
  portOut,           \* per port: messages the relay posted, not yet handled by the tab
  channels,          \* the relay's channels map: per channel NoChannel, or its tabs and sharedState.counter
  closedPorts,       \* ports the relay closed
  handled,           \* history: the message the relay handled last, and its port
  posted,            \* history: the postMessage calls of that handler, in order
  ops,               \* number of application calls and page unloads still to come
  written,           \* history, per channel: the value a registered tab wrote last through its remote
  runs,              \* history, per port: how many times a schema method ran on the tab
  returned,          \* per port: how the promise of the tab's last proxy call settled
  tabsCalls,         \* per port: the getConnectedTabs() calls whose listener is on the port, in order
  tabsResolved       \* history, per port: the getConnectedTabs() calls resolved, with what

config == <<guestKind, guestContext, frameSrc, hook>>
hostVars == <<connections, hostSendTo, hostConnect, hsReplies>>
core == <<guestKind, guestContext, frameSrc, hook, connections, hostSendTo, remote, listeners,
          hostConnect, guestConnect, chan, calls, execs, served,
          hsReplies, closed, terminated>>
xferVars == <<xferPlan, xferStage, xferResult, xferReply>>
hubVars == <<hubCfg, hubListeners, hubConnections, hubAccepted, hubResolved, hubIn, hubOut,
             hubRequested, hubGuestConns, hubTerminated, hubCalls, hubRan, hubNext>>
echoVars == <<echoArg, echoCall, echoWire, echoResult, xferVars, hubVars>>
schemaVars == <<schLocal, schWire, schRemote, schMethods>>
tabVars == <<tabState, sharedStateCache, remoteFn>>
relayVars == <<channels, closedPorts>>
appVars == <<ops, written>>
callVars == <<runs, returned, tabsCalls, tabsResolved>>
bridgeVars == <<tabOptions, tabVars, portIn, portOut, relayVars, handled, posted, appVars, callVars>>
lab == <<echoVars, schemaVars, bridgeVars>>
vars == <<core, lab>>

\* ---------------------------------------------------------------- messages
NoNames == {}
Msg(action, conn, callID, callName, value, names, origin, source) ==
  [action |-> action, connectionID |-> conn, callID |-> callID, callName |-> callName,
   value |-> value, names |-> names, origin |-> origin, source |-> source]

\* ---------------------------------------------------------------- listeners
Listener(kind, name, callID, conn) ==
  [kind |-> kind, name |-> name, callID |-> callID, conn |-> conn]
handleHandshakeL == Listener("handleHandshake", "", 0, "")
handleHandshakeReplyL == Listener("handleHandshakeReply", "", 0, "")
handleHandshakeResponseL == Listener("handleHandshakeResponse", "", 0, "")
handleCallL(name, conn) == Listener("handleCall", name, 0, conn)
handleResponseL(callID, name, conn) == Listener("handleResponse", name, callID, conn)

NoRemote == [names |-> {}, conn |-> ""]

\* ------------------------------------------------------------- JSON values
\* Scalars, and arrays and objects of scalars.  `items` holds an array's
\* elements, or the value stored under an object's one key.
Scalar(t, n, s) == [t |-> t, n |-> n, s |-> s]
JSON(t, n, s, items) == [t |-> t, n |-> n, s |-> s, items |-> items]
NoJSON == JSON("none", 0, "", <<>>)

\* No call to echo is followed.
\* result[SYM_TRANSFERABLES]: absent, or the array withTransferable attached.
NoMarker == [present |-> FALSE, list |-> <<>>]
Marker(list) == [present |-> TRUE, list |-> list]

\* A method result: a JSON value or an object built by a withTransferable
\* callback, with what the callback stored in it and the marker property.
Result(value, holds, marker) == [value |-> value, holds |-> holds, marker |-> marker]
NoResult == Result(NoJSON, <<>>, NoMarker)

\* The transfer argument of postMessage: undefined, or an array.
NoTransfer == [given |-> FALSE, list |-> <<>>]
NoReply == [action |-> "", result |-> NoResult, transfer |-> NoTransfer]
NoPlan == [with |-> FALSE, passes |-> <<>>, plain |-> NoJSON]

\* No call of a method with transferables is followed.
XferIdle ==
  /\ xferPlan = NoPlan
  /\ xferStage = "off"
  /\ xferResult = NoResult
  /\ xferReply = NoReply

\* The host's connect calls, each named by the connection ID it generated,
\* and the guests.
Connects == {"k1", "k2"}
Guests == {"g1", "g2"}
NoGuest == "none"
NoCfg == [kind |-> "", guestOf |-> [k \in Connects |-> NoGuest], src |-> [g \in Guests |-> FALSE]]

\* No host with several connect calls is followed.
HubIdle ==
  /\ hubCfg = NoCfg
  /\ hubListeners = {}
  /\ hubConnections = {}
  /\ hubAccepted = [k \in Connects |-> NoGuest]
  /\ hubResolved = [k \in Connects |-> NoGuest]
  /\ hubIn = <<>>
  /\ hubOut = [g \in Guests |-> <<>>]
  /\ hubRequested = {}
  /\ hubGuestConns = [g \in Guests |-> {}]
  /\ hubTerminated = {}
  /\ hubCalls = {}
  /\ hubRan = {}
  /\ hubNext = 0

EchoIdle ==
  /\ echoArg = NoJSON
  /\ echoCall = "idle"
  /\ echoWire = <<>>
  /\ echoResult = NoJSON
  /\ XferIdle
  /\ HubIdle

\* No schema is followed.
NoTree == [built |-> FALSE, leaves |-> {}]
NoWire == [sent |-> FALSE, methodNames |-> <<>>, schema |-> {}]
SchemaIdle ==
  /\ schLocal = <<>>
  /\ schWire = NoWire
  /\ schRemote = NoTree
  /\ schMethods = {}

\* ------------------------------------------------------------------ bridge
BRIDGE_HANDSHAKE == "SOCKBRIDGE/HANDSHAKE"
BRIDGE_HANDSHAKE_ACK == "SOCKBRIDGE/HANDSHAKE_ACK"
BRIDGE_HANDSHAKE_ERROR == "SOCKBRIDGE/HANDSHAKE_ERROR"
BRIDGE_BROADCAST == "SOCKBRIDGE/BROADCAST"
BRIDGE_DIRECT_MESSAGE == "SOCKBRIDGE/DIRECT_MESSAGE"
BRIDGE_RELAY == "SOCKBRIDGE/RELAY"
BRIDGE_SET_STATE == "SOCKBRIDGE/SET_STATE"
BRIDGE_STATE_UPDATE == "SOCKBRIDGE/STATE_UPDATE"
BRIDGE_DISCONNECT == "SOCKBRIDGE/DISCONNECT"
BRIDGE_GET_TABS == "SOCKBRIDGE/GET_TABS"
BRIDGE_GET_STATE == "SOCKBRIDGE/GET_STATE"
BRIDGE_STATE_RESPONSE == "SOCKBRIDGE/STATE_RESPONSE"
BRIDGE_TABS_RESPONSE == "SOCKBRIDGE/TABS_RESPONSE"
DUPLICATE_TAB_ID == "DUPLICATE_TAB_ID"

Ports == {"p1", "p2", "p3"}
TabIDs == {"t1", "t2", "t3"}
Channels == {"c", "d"}
NoPort == "none"
Absent == -1          \* a key the dictionary does not have
Seed == 0             \* counter: 0 in every tab's schema
WriteValues == {5}    \* the values the applications write
SyncValues == {5, 7}  \* the values written by tabs that write at the same time

\* A bridge message; the fields an action does not carry are "" and Absent.
\* value is schema.counter of a handshake, sharedState.counter of an
\* acknowledgement, args[0] of a call and value of a state message.
\* methodName and error are those of a call, tabIDs the roster of a
\* BRIDGE_TABS_RESPONSE; req is not a field of the payloads: it numbers the
\* BRIDGE_GET_TABS requests of a tab, and a response carries the number of
\* the request it answers.
NoError == "undefined"
BridgeMsg(action, tabID, channel, targetTabID, value, code) ==
  [action |-> action, tabID |-> tabID, channel |-> channel, targetTabID |-> targetTabID,
   value |-> value, code |-> code, methodName |-> "", error |-> NoError, tabIDs |-> {}, req |-> 0]
NoBridgeMsg == BridgeMsg("", "", "", "", Absent, "")

\* What a tab's last proxy call did: whether the local execution threw, and
\* how the promise handed to the caller settled.
NoOutcome == [threw |-> FALSE, settled |-> "none", result |-> Absent, error |-> NoError]

NoChannel == [exists |-> FALSE, tabs |-> [t \in TabIDs |-> NoPort], sharedState |-> Absent]

\* No tab has called bridge.connect.
BridgeIdle ==
  /\ tabOptions = [p \in Ports |-> [tabID |-> "t1", channel |-> "c"]]
  /\ tabState = [p \in Ports |-> "idle"]
  /\ sharedStateCache = [p \in Ports |-> Absent]
  /\ remoteFn = [p \in Ports |-> Absent]
  /\ portIn = [p \in Ports |-> <<>>]
  /\ portOut = [p \in Ports |-> <<>>]
  /\ channels = [c \in Channels |-> NoChannel]
  /\ closedPorts = {}
  /\ handled = [port |-> NoPort, msg |-> NoBridgeMsg]
  /\ posted = [q \in Ports |-> <<>>]
  /\ ops = 0
  /\ written = [c \in Channels |-> Absent]
  /\ runs = [p \in Ports |-> 0]
  /\ returned = [p \in Ports |-> NoOutcome]
  /\ tabsCalls = [p \in Ports |-> <<>>]
  /\ tabsResolved = [p \in Ports |-> <<>>]

LabIdle == EchoIdle /\ SchemaIdle /\ BridgeIdle

Init ==
  /\ LabIdle
  /\ guestKind \in {"worker", "frame"}
  /\ guestContext \in {guestKind, "window"}
  /\ frameSrc \in IF guestKind = "frame" THEN SrcURLs ELSE {NoSrc}
  /\ hook \in {"none", "double", "fail"}
  /\ connections = {}
  /\ hostSendTo = "none"
  /\ remote = [s \in Side |-> NoRemote]
  /\ listeners = [s \in Side |-> IF s = "host" THEN {handleHandshakeL, handleHandshakeReplyL} ELSE {}]
  /\ hostConnect = "pending"
  /\ guestConnect = "idle"
  /\ chan = [s \in Side |-> <<>>]
  /\ calls = <<>>
  /\ execs = {}
  /\ served = {}
  /\ hsReplies = <<>>
  /\ closed = [s \in Side |-> 0]
  /\ terminated = FALSE

\* ------------------------------------------------------------- user methods
\* Variant of invoke: the method is not handed the remote.
C9_invokeWithoutRemote(name, arg, rem) ==
  CASE name = "inc" -> [kind |-> "return", value |-> Num(arg.n + 1)]
    [] name = "fail" -> [kind |-> "throw", value |-> ErrorObj("nope", "Error: nope at fail")]
    [] name = "reject" -> [kind |-> "throw", value |-> Undefined]
    [] name = "slow" -> [kind |-> "timer", value |-> arg]
    [] OTHER -> [kind |-> "throw", value |-> ErrorObj("r.inc is not a function", "TypeError")]

\* What invoking a local method does before handleCall's await settles:
\* it returns, it throws, it stays pending on a timer ("timer"), or it stays
\* pending on a call it made through the trailing remote ("call").
invoke(name, arg, rem) ==
  CASE name = "inc" -> [kind |-> "return", value |-> Num(arg.n + 1)]
    [] name = "fail" -> [kind |-> "throw", value |-> ErrorObj("nope", "Error: nope at fail")]
    [] name = "reject" -> [kind |-> "throw", value |-> Undefined]
    [] name = "slow" -> [kind |-> "timer", value |-> arg]
    [] name = "double" ->
         IF "inc" \in rem THEN [kind |-> "call", value |-> arg]
         ELSE [kind |-> "throw", value |-> ErrorObj("r.inc is not a function", "TypeError")]
    [] OTHER -> [kind |-> "return", value |-> Undefined]

\* double's continuation once r.inc(n) has settled.
resume(action, value) ==
  IF action = RPC_RESOLVE THEN [kind |-> "return", value |-> Num(2 * value.n)]
  ELSE [kind |-> "throw", value |-> value]

\* ------------------------------------------------------------------ rpc.ts
\* JSON.parse(JSON.stringify(error, Object.getOwnPropertyNames(error))):
\* Object.getOwnPropertyNames(undefined) throws a TypeError inside the catch
\* block; an Error becomes a plain object holding its own stack and message.
serializeThrows(error) == error.t = "undefined"
serializeError(error) == IF error.t = "Error" THEN [error EXCEPT !.t = "object"] ELSE error

\* handleCall's guards: the listener registered for (methodName, rpcConnectionID).
handleCallAccepts(l, m) ==
  /\ m.action = RPC_REQUEST
  /\ m.callID # 0 /\ m.callName # ""
  /\ m.callName = l.name
  /\ m.connectionID = l.conn

\* Variant of handleResponseAccepts: without the call ID guard.
C2_handleResponseAcceptsAnyCallID(l, m) ==
  /\ m.callID # 0 /\ m.callName # ""
  /\ m.callName = l.name
  /\ m.connectionID = l.conn

\* handleResponse's guards: the listener of call (requestID, rpcCallName, rpcConnectionID).
handleResponseAccepts(l, m) ==
  /\ m.callID # 0 /\ m.callName # ""
  /\ m.callName = l.name
  /\ m.callID = l.callID
  /\ m.connectionID = l.conn

\* Variant of settle: every reply resolves.
C1_settleAlwaysResolves(action) == "resolved"
\* if (action === RPC_RESOLVE) return resolve(result);
\* if (action === RPC_REJECT) return reject(error);
settle(action) == IF action = RPC_RESOLVE THEN "resolved" ELSE "rejected"

\* The origin and source window the receiver sees on a message from side s.
OriginOf(s) == IF s = "guest" THEN GuestOrigin ELSE NullOrigin

\* handleCall after the method settled: the reply it posts (none when the
\* serialization of the thrown value itself throws).
replyOf(s, e, outcome) ==
  IF outcome.kind = "return"
  THEN <<Msg(RPC_RESOLVE, e.conn, e.callID, e.callName, outcome.value, NoNames, OriginOf(s), s)>>
  ELSE IF serializeThrows(outcome.value) THEN <<>>
  ELSE <<Msg(RPC_REJECT, e.conn, e.callID, e.callName, serializeError(outcome.value),
             NoNames, OriginOf(s), s)>>

Exec(s, m, name, inner) ==
  [side |-> s, callID |-> m.callID, callName |-> m.callName, conn |-> m.connectionID,
   method |-> name, arg |-> m.value, inner |-> inner]

Served(e, outcome, reply) ==
  [side |-> e.side, callID |-> e.callID, callName |-> e.callName, conn |-> e.conn,
   outcome |-> outcome.kind, value |-> outcome.value, reply |-> reply]

\* createRPC's proxy called with one argument: the pending-call record, the
\* request it posts and the response listener it subscribes.
NoBy == [callID |-> 0, callName |-> "", connectionID |-> "", action |-> "", value |-> NoValue]
Call(s, name, conn, arg, via, parent) ==
  [side |-> s, callName |-> name, conn |-> conn, arg |-> arg, via |-> via, parent |-> parent,
   state |-> "pending", value |-> NoValue, by |-> NoBy,
   early |-> (s = "host" /\ hostConnect = "pending"), afterClose |-> closed[s] > 0]
Request(s, id, name, conn, arg) ==
  Msg(RPC_REQUEST, conn, id, name, arg, NoNames, OriginOf(s), s)

\* postMessageToTarget(sendTo, ...) from side s reaches the peer's queue unless
\* sendTo is another window or a terminated worker.
Reaches(s) == IF s = "host" THEN hostSendTo = "guest" /\ ~terminated ELSE TRUE
Post(q, s, msgs) == [q EXCEPT ![Peer(s)] = IF Reaches(s) THEN @ \o msgs ELSE @]
Pop(s) == [chan EXCEPT ![s] = Tail(@)]

RECURSIVE Sorted(_)
Sorted(S) ==
  IF S = {} THEN <<>>
  ELSE LET x == CHOOSE x \in S : \A y \in S : x.callID <= y.callID
       IN <<x>> \o Sorted(S \ {x})
RECURSIVE Flatten(_)
Flatten(ss) == IF ss = <<>> THEN <<>> ELSE Head(ss) \o Flatten(Tail(ss))

\* Identifiers the bound keeps free for calls that methods and the hook will
\* make: a served double calls inc, the hook calls its method.
Reserved ==
  Cardinality({i \in DOMAIN calls : calls[i].callName = "double"
                                    /\ \A j \in DOMAIN calls : calls[j].parent # i})
  + (IF hook # "none" /\ guestConnect \in {"idle", "requested"} THEN Need(hook) ELSE 0)

\* ----------------------------------------------------------- host.connect
\* Variant of isValidTarget: the source window is not compared.
C3_isValidTargetOriginOnly(event) ==
  event.origin = getOriginFromURL(frameSrc) \/ frameSrc = NoSrc

\* isValidTarget for an iframe guest; event.source is compared with
\* iframe.contentWindow, the guest's window.
isValidTarget(event) ==
  LET childOrigin == getOriginFromURL(frameSrc)
      hasProperOrigin == event.origin = childOrigin
      hasProperSource == event.source = "guest"
  IN (hasProperOrigin /\ hasProperSource) \/ frameSrc = NoSrc

\* Variant of alreadyConnected: the registry is not consulted.
C6_neverConnected == FALSE
\* if (connections[connectionID]) return;
alreadyConnected == ConnID \in connections

handleHandshakeAccepts(event) ==
  /\ handleHandshakeL \in listeners["host"]
  /\ (guestKind = "worker" \/ isValidTarget(event))
  /\ event.action = HANDSHAKE_REQUEST
  /\ ~alreadyConnected

handleHandshakeReplyAccepts(event) ==
  /\ handleHandshakeReplyL \in listeners["host"]
  /\ event.action = HANDSHAKE_REPLY
  /\ event.connectionID = ConnID

\* handleHandshake past its guards: register both directions, reply, record
\* the connection.  q is the queue state left by the dispatch.
handleHandshake(event, q) ==
  LET sendTo == IF guestKind = "worker" THEN "guest" ELSE event.source
      payload == Msg(HANDSHAKE_REPLY, ConnID, 0, "", NoValue, extractMethods("host"),
                     NullOrigin, "host")
  IN /\ remote' = [remote EXCEPT !["host"] = [names |-> event.names, conn |-> ConnID]]
     /\ listeners' = [listeners EXCEPT !["host"] =
                        @ \cup {handleCallL(n, ConnID) : n \in extractMethods("host")}]
     /\ hostSendTo' = sendTo
     /\ chan' = IF sendTo = "guest" THEN [q EXCEPT !["guest"] = Append(@, payload)] ELSE q
     /\ hsReplies' = Append(hsReplies, [source |-> sendTo, origin |-> event.origin])
     /\ connections' = connections \cup {ConnID}
     /\ UNCHANGED hostConnect

\* handleHandshakeReply past its guards: resolve with the registered
\* connection, or throw "No connection found" (an uncaught error in the
\* host's own event handler; nothing is posted).
handleHandshakeReply(q) ==
  /\ hostConnect' = IF ConnID \in connections THEN "resolved" ELSE hostConnect
  /\ chan' = q
  /\ UNCHANGED <<connections, hostSendTo, hsReplies, remote, listeners>>

\* A handshake-tagged event dispatched to the host's listeners.
HostDispatchHandshake(event, q) ==
  /\ IF handleHandshakeAccepts(event) THEN handleHandshake(event, q)
     ELSE IF handleHandshakeReplyAccepts(event) THEN handleHandshakeReply(q)
     ELSE chan' = q /\ UNCHANGED <<hostVars, remote, listeners>>
  /\ UNCHANGED <<lab, config, guestConnect, calls, execs, served, closed, terminated>>

\* --------------------------------------------------------------- rpc dispatch
\* An RPC_REQUEST dispatched to the handleCall listeners of side s.
HandleCalls(s, m) ==
  LET L == {l \in listeners[s] : l.kind = "handleCall" /\ handleCallAccepts(l, m)}
      run(l) == invoke(l.name, m.value, remote[s].names)
      done == {l \in L : run(l).kind \in {"return", "throw"}}
      waiting == {l \in L : run(l).kind \in {"timer", "call"}}
      callers == {l \in L : run(l).kind = "call"}
      inner == Len(calls) + 1
      finished == {Served(Exec(s, m, l.name, 0), run(l),
                          replyOf(s, Exec(s, m, l.name, 0), run(l))) : l \in done}
      replies == LET fs == Sorted(finished) IN Flatten([i \in 1..Len(fs) |-> fs[i].reply])
      requests == IF callers = {} THEN <<>>
                  ELSE <<Request(s, inner, "inc", remote[s].conn, m.value)>>
  IN /\ callers # {} => Len(calls) < MaxCalls
     /\ execs' = execs \cup {Exec(s, m, l.name, IF l \in callers THEN inner ELSE 0) : l \in waiting}
     /\ served' = served \cup finished
     /\ calls' = IF callers = {} THEN calls
                 ELSE Append(calls, Call(s, "inc", remote[s].conn, m.value, "method", m.callID))
     /\ listeners' = IF callers = {} THEN listeners
                     ELSE [listeners EXCEPT ![s] = @ \cup {handleResponseL(inner, "inc", remote[s].conn)}]
     /\ chan' = Post(Pop(s), s, requests \o replies)
     /\ UNCHANGED <<lab, config, hostVars, remote, guestConnect, closed, terminated>>

\* An RPC_RESOLVE or RPC_REJECT dispatched to the handleResponse listeners of
\* side s; then the continuations of whatever awaited the settled calls: a
\* method awaiting its call back, or the guest's onConnectionSetup hook.
HandleResponses(s, m) ==
  LET L == {l \in listeners[s] : l.kind = "handleResponse" /\ handleResponseAccepts(l, m)}
      settling == m.action \in {RPC_RESOLVE, RPC_REJECT}
      ids == {i \in DOMAIN calls : /\ settling
                                   /\ calls[i].state = "pending"
                                   /\ \E l \in L : l.callID = i}
      awaiting == {e \in execs : e.side = s /\ e.inner \in ids}
      outcome == resume(m.action, m.value)
      finished == {Served(e, outcome, replyOf(s, e, outcome)) : e \in awaiting}
      replies == LET fs == Sorted(finished) IN Flatten([i \in 1..Len(fs) |-> fs[i].reply])
      hookDone == \E i \in ids : calls[i].via = "hook"
      confirm == IF hookDone /\ m.action = RPC_RESOLVE
                 THEN <<Msg(HANDSHAKE_REPLY, remote[s].conn, 0, "", NoValue, NoNames, OriginOf(s), s)>>
                 ELSE <<>>
  IN /\ calls' = [i \in DOMAIN calls |->
                    IF i \in ids
                    THEN [calls[i] EXCEPT
                            !.state = settle(m.action),
                            !.value = m.value,
                            !.by = [callID |-> m.callID, callName |-> m.callName,
                                    connectionID |-> m.connectionID, action |-> m.action,
                                    value |-> m.value]]
                    ELSE calls[i]]
     /\ execs' = execs \ awaiting
     /\ served' = served \cup finished
     /\ guestConnect' = IF hookDone
                        THEN (IF m.action = RPC_RESOLVE THEN "resolved" ELSE "failed")
                        ELSE guestConnect
     /\ chan' = Post(Pop(s), s, replies \o confirm)
     /\ UNCHANGED <<lab, config, hostVars, remote, listeners, closed, terminated>>

\* ---------------------------------------------------------- guest.connect
\* handleHandshakeResponse: register the proxies and the local handlers, run
\* the hook, then confirm and resolve.  A hook awaits one call to the host
\* method `hook`; the rest of the handler runs when that call settles
\* (HandleResponses), or never when the hook throws.
handleHandshakeResponse(m) ==
  LET conn == m.connectionID
      registered == {handleCallL(n, conn) : n \in extractMethods("guest")}
      id == Len(calls) + 1
      arg == CHOOSE a \in ArgsOf(hook, 0) : TRUE
      payload == Msg(HANDSHAKE_REPLY, conn, 0, "", NoValue, NoNames, GuestOrigin, "guest")
  IN /\ remote' = [remote EXCEPT !["guest"] = [names |-> m.names, conn |-> conn]]
     /\ IF hook = "none"
        THEN /\ listeners' = [listeners EXCEPT !["guest"] = @ \cup registered]
             /\ chan' = Post(Pop("guest"), "guest", <<payload>>)
             /\ guestConnect' = "resolved"
             /\ UNCHANGED calls
        ELSE IF hook \in m.names /\ Len(calls) < MaxCalls
        THEN /\ listeners' = [listeners EXCEPT !["guest"] =
                                @ \cup registered \cup {handleResponseL(id, hook, conn)}]
             /\ calls' = Append(calls, Call("guest", hook, conn, arg, "hook", 0))
             /\ chan' = Post(Pop("guest"), "guest", <<Request("guest", id, hook, conn, arg)>>)
             /\ guestConnect' = "hook"
        ELSE /\ listeners' = [listeners EXCEPT !["guest"] = @ \cup registered]
             /\ chan' = Pop("guest")
             /\ guestConnect' = "failed"
             /\ UNCHANGED calls
     /\ UNCHANGED <<lab, config, hostVars, execs, served, closed, terminated>>

\* getTargetHost(): self in a worker, window.parent in a frame; otherwise it
\* throws Error("No valid target found for postMessage").
getTargetHostThrows(context) == context \notin {"worker", "frame"}

\* guest.connect(schema, options) without hostTarget: resolve the target,
\* subscribe, then post HANDSHAKE_REQUEST.  The body is the async executor of
\* the returned promise: when getTargetHost throws, the executor's own promise
\* rejects unobserved and the returned promise is left pending ("failed").
GuestConnect ==
  /\ guestConnect = "idle"
  /\ ~terminated
  /\ IF getTargetHostThrows(guestContext)
     THEN /\ guestConnect' = "failed"
          /\ UNCHANGED <<listeners, chan>>
     ELSE /\ guestConnect' = "requested"
          /\ listeners' = [listeners EXCEPT !["guest"] = @ \cup {handleHandshakeResponseL}]
          /\ chan' = [chan EXCEPT !["host"] =
                        Append(@, Msg(HANDSHAKE_REQUEST, "", 0, "", NoValue, extractMethods("guest"),
                                      GuestOrigin, "guest"))]
  /\ UNCHANGED <<lab, config, hostVars, remote, calls, execs, served, closed, terminated>>

\* ------------------------------------------------------------------ dispatch
\* The next message event on the host's listenTo, dispatched to every listener.
DeliverHost ==
  /\ chan["host"] # <<>>
  /\ LET m == Head(chan["host"])
     IN CASE m.action \in {HANDSHAKE_REQUEST, HANDSHAKE_REPLY} ->
               HostDispatchHandshake(m, Pop("host"))
          [] m.action = RPC_REQUEST -> HandleCalls("host", m)
          [] OTHER -> HandleResponses("host", m)

\* The next message event on the guest's listenTo.
DeliverGuest ==
  /\ ~terminated
  /\ chan["guest"] # <<>>
  /\ LET m == Head(chan["guest"])
     IN CASE m.action = HANDSHAKE_REPLY /\ handleHandshakeResponseL \in listeners["guest"] ->
               handleHandshakeResponse(m)
          [] m.action = RPC_REQUEST -> HandleCalls("guest", m)
          [] m.action \in {RPC_RESOLVE, RPC_REJECT} -> HandleResponses("guest", m)
          [] OTHER -> /\ chan' = Pop("guest")
                      /\ UNCHANGED <<lab, config, hostVars, remote, listeners, guestConnect, calls,
                                     execs, served, closed, terminated>>

\* Another window posts a handshake-tagged message to the host's window.
OtherPosts ==
  /\ guestKind = "frame"
  /\ \E a \in {HANDSHAKE_REQUEST, HANDSHAKE_REPLY}, o \in Origins, c \in {ConnID, BogusID} :
       /\ a = HANDSHAKE_REQUEST => c = BogusID
       /\ a = HANDSHAKE_REPLY => o = EvilOrigin
       /\ HostDispatchHandshake(Msg(a, c, 0, "", NoValue, NoNames, o, "other"), chan)

\* ---------------------------------------------------------------- the calls
\* How many calls to `name` the application of side s has made.
Made(s, name) ==
  Cardinality({i \in DOMAIN calls : calls[i].side = s /\ calls[i].callName = name
                                    /\ calls[i].via = "app"})

\* Variant of hasConnection: the host resolves as soon as it registered.
C5_hasConnectionOnceRegistered(s) ==
  IF s = "host" THEN ConnID \in connections ELSE guestConnect = "resolved"
\* The application holds the connection object once connect's promise resolved.
hasConnection(s) == IF s = "host" THEN hostConnect = "resolved" ELSE guestConnect = "resolved"

\* The application calls a proxy of the remote tree of its connection object.
AppCall(s) ==
  /\ hasConnection(s)
  /\ s = "guest" => ~terminated
  /\ \E name \in remote[s].names \cap AppMethods(s) : \E arg \in ArgsOf(name, Made(s, name)) :
       LET id == Len(calls) + 1
           conn == remote[s].conn
       IN /\ Len(calls) + Need(name) + Reserved <= MaxCalls
          /\ calls' = Append(calls, Call(s, name, conn, arg, "app", 0))
          /\ listeners' = [listeners EXCEPT ![s] = @ \cup {handleResponseL(id, name, conn)}]
          /\ chan' = Post(chan, s, <<Request(s, id, name, conn, arg)>>)
  /\ UNCHANGED <<lab, config, hostVars, remote, guestConnect, execs, served, closed, terminated>>

\* A method pending on its timer returns; handleCall posts the reply.
MethodReturns ==
  \E e \in execs :
    /\ e.inner = 0
    /\ e.side = "guest" => ~terminated
    /\ LET outcome == [kind |-> "return", value |-> e.arg]
           reply == replyOf(e.side, e, outcome)
       IN /\ execs' = execs \ {e}
          /\ served' = served \cup {Served(e, outcome, reply)}
          /\ chan' = Post(chan, e.side, reply)
    /\ UNCHANGED <<lab, config, hostVars, remote, listeners, guestConnect, calls, closed, terminated>>

\* -------------------------------------------------------------------- close
\* unregisterRemote: every cleanup function pushed by createRPC so far.
unregisterRemote(s) ==
  {handleResponseL(i, calls[i].callName, calls[i].conn) : i \in {j \in DOMAIN calls : calls[j].side = s}}
\* unregisterLocal: the handleCall listeners registerLocalMethods subscribed.
unregisterLocal(s) == {handleCallL(n, remote[s].conn) : n \in extractMethods(s)}

\* Variant of closeRemoves: unregisterRemote is not called.
C8_closeKeepsResponseListeners(s) ==
  (IF s = "host" THEN {handleHandshakeL, handleHandshakeReplyL} ELSE {handleHandshakeResponseL})
  \cup unregisterLocal(s)

\* The listeners close() removes on side s.
closeRemoves(s) ==
  (IF s = "host" THEN {handleHandshakeL, handleHandshakeReplyL} ELSE {handleHandshakeResponseL})
  \cup unregisterRemote(s) \cup unregisterLocal(s)

\* connection.close() on the host.
HostClose ==
  /\ hasConnection("host")
  /\ closed["host"] + closed["guest"] < MaxClose
  /\ connections' = connections \ {ConnID}
  /\ listeners' = [listeners EXCEPT !["host"] = @ \ closeRemoves("host")]
  /\ terminated' = (terminated \/ guestKind = "worker")
  /\ closed' = [closed EXCEPT !["host"] = @ + 1]
  /\ UNCHANGED <<lab, config, hostSendTo, hostConnect, hsReplies, remote, guestConnect,
                 chan, calls, execs, served>>

\* connection.close() on the guest.
GuestClose ==
  /\ hasConnection("guest")
  /\ ~terminated
  /\ closed["host"] + closed["guest"] < MaxClose
  /\ listeners' = [listeners EXCEPT !["guest"] = @ \ closeRemoves("guest")]
  /\ closed' = [closed EXCEPT !["guest"] = @ + 1]
  /\ UNCHANGED <<lab, config, hostVars, remote, guestConnect, chan, calls, execs, served,
                 terminated>>

Next ==
  \/ GuestConnect
  \/ DeliverHost
  \/ DeliverGuest
  \/ OtherPosts
  \/ AppCall("host")
  \/ AppCall("guest")
  \/ MethodReturns
  \/ HostClose
  \/ GuestClose

Spec == Init /\ [][Next]_vars

\* Each context's event loop dispatches the messages queued for it, and a
\* method's timer fires.
FairSpec ==
  Spec /\ WF_vars(DeliverHost) /\ WF_vars(DeliverGuest) /\ WF_vars(MethodReturns)

\* =================================================================== claims
\* A reply addressed to call i: it carries the call's three correlation fields.
Matches(m, i) ==
  /\ m.action \in {RPC_RESOLVE, RPC_REJECT}
  /\ m.callID = i
  /\ m.callName = calls[i].callName
  /\ m.connectionID = calls[i].conn

Settled(i) == calls[i].state # "pending"

\* Side s dispatches the message at the head of its queue in this step.
Dispatches(s) == chan[s] # <<>> /\ chan'[s] = Tail(chan[s])

\* ----------------------------------------------------------------------- C1
C1_SettledByOwnReply ==
  \A i \in DOMAIN calls :
    Settled(i) =>
      /\ calls[i].by.callID = i
      /\ calls[i].by.callName = calls[i].callName
      /\ calls[i].by.connectionID = calls[i].conn
      /\ calls[i].value = calls[i].by.value
      /\ calls[i].state = "resolved" <=> calls[i].by.action = RPC_RESOLVE
      /\ calls[i].state = "rejected" <=> calls[i].by.action = RPC_REJECT

C1_SettlesOnce == \A i \in DOMAIN calls : Settled(i) => calls'[i] = calls[i]

C1_SettlesOnMatch ==
  \A i \in DOMAIN calls :
    LET s == calls[i].side
    IN (/\ Dispatches(s)
        /\ Matches(Head(chan[s]), i)
        /\ ~Settled(i)
        /\ handleResponseL(i, calls[i].callName, calls[i].conn) \in listeners[s])
       => /\ calls'[i].value = Head(chan[s]).value
          /\ calls'[i].state =
               (IF Head(chan[s]).action = RPC_RESOLVE THEN "resolved" ELSE "rejected")

\* C1: the promise of a call made through a remote proxy is settled only by a
\* message carrying the call's own call ID, method name and connection ID;
\* it is resolved with the carried result on RPC_RESOLVE and rejected with the
\* carried error on RPC_REJECT; once settled it never changes; and the
\* dispatch of a matching reply while the call's listener is subscribed
\* settles it.
C1_SettlesOnceByMatchingReply ==
  [](C1_SettledByOwnReply) /\ [][C1_SettlesOnce /\ C1_SettlesOnMatch]_vars

\* A call was rejected and another resolved, each by its own reply.
C1_Witness ==
  \E i, j \in DOMAIN calls :
    /\ calls[i].state = "rejected" /\ calls[i].by.action = RPC_REJECT
    /\ calls[j].state = "resolved" /\ calls[j].by.action = RPC_RESOLVE

\* ----------------------------------------------------------------------- C2
\* C2: of the calls one side makes to the same method, each is settled only by
\* the reply to its own request, in whatever order the replies arrive: a
\* settled call to slow is resolved with its own argument by the reply that
\* carries its own call ID, and no two calls are settled by one reply.
C2_NoCrossResolution ==
  /\ \A i \in DOMAIN calls :
       (calls[i].callName = "slow" /\ Settled(i)) =>
         /\ calls[i].state = "resolved"
         /\ calls[i].value = calls[i].arg
         /\ calls[i].by.callID = i
  /\ \A i, j \in DOMAIN calls :
       (Settled(i) /\ Settled(j) /\ calls[i].by.callID = calls[j].by.callID) => i = j

\* The host called slow(30), slow(10), slow(20); the reply 10 has settled the
\* second call, the reply 20 is next in the host's queue, and slow(30) has not
\* returned yet.
C2_Witness ==
  /\ Len(calls) = 3
  /\ \A i \in 1..3 : calls[i].side = "host" /\ calls[i].callName = "slow"
                     /\ calls[i].arg = SlowArgs[i]
  /\ calls[1].state = "pending"
  /\ calls[2].state = "resolved" /\ calls[2].value = Num(10)
  /\ calls[3].state = "pending"
  /\ chan["host"] # <<>> /\ Head(chan["host"]).value = Num(20)
  /\ \E e \in execs : e.callID = 1

\* ----------------------------------------------------------------------- C3
\* The guest is the frame's content window: its HANDSHAKE_REQUEST is the only
\* one whose source passes, and it has been dispatched to the host.
GuestRequestDispatched ==
  /\ guestConnect # "idle"
  /\ ~getTargetHostThrows(guestContext)
  /\ \A k \in 1..Len(chan["host"]) : chan["host"][k].action # HANDSHAKE_REQUEST

ValidRequestReceived ==
  GuestRequestDispatched /\ GuestOrigin = getOriginFromURL(frameSrc)

\* C3: a host connected to a frame with a declared source that has received
\* no handshake request with both the frame's normalized declared origin and
\* the frame's content window as source has not resolved its connect promise,
\* has registered no connection and has sent no HANDSHAKE_REPLY.
C3_InvalidRequestsNeverConnect ==
  (guestKind = "frame" /\ frameSrc # NoSrc /\ ~ValidRequestReceived) =>
    /\ hostConnect = "pending"
    /\ connections = {}
    /\ hsReplies = <<>>
    /\ hostSendTo = "none"
    /\ remote["host"] = NoRemote

\* The declared source is on another port than the guest's document; the
\* guest's request has been dispatched to the host.
C3_Witness ==
  /\ guestKind = "frame"
  /\ frameSrc # NoSrc
  /\ getOriginFromURL(frameSrc) # GuestOrigin
  /\ GuestRequestDispatched
  /\ hostConnect = "pending" /\ connections = {}

\* ----------------------------------------------------------------------- C4
\* The guest's confirming HANDSHAKE_REPLY has been dispatched to the host.
GuestConfirmDispatched ==
  /\ guestConnect = "resolved"
  /\ \A k \in 1..Len(chan["host"]) : chan["host"][k].action # HANDSHAKE_REPLY

\* C4: for a frame with a declared source the host acts on no handshake
\* message that fails origin/source validation: it has registered and replied
\* only if a valid HANDSHAKE_REQUEST was dispatched, and its connect promise
\* is resolved only if the valid confirming HANDSHAKE_REPLY was dispatched.
C4_ActsOnlyOnValidHandshake ==
  (guestKind = "frame" /\ frameSrc # NoSrc) =>
    /\ (connections # {} \/ hsReplies # <<>>) => ValidRequestReceived
    /\ hostConnect = "resolved" =>
         (GuestConfirmDispatched /\ GuestOrigin = getOriginFromURL(frameSrc))

HandleCallListeners == {l \in listeners["host"] : l.kind = "handleCall"}

\* C6: once the host has accepted a HANDSHAKE_REQUEST, no step sends another
\* HANDSHAKE_REPLY, changes the recipient or the proxies of the connection,
\* subscribes a request handler or adds an entry to the registry; the
\* registry holds at most the one identifier.
C6_FurtherRequestsIgnored ==
  [](Len(hsReplies) <= 1 /\ connections \subseteq {ConnID})
  /\ [][hsReplies # <<>> =>
          /\ hsReplies' = hsReplies
          /\ hostSendTo' = hostSendTo
          /\ remote'["host"] = remote["host"]
          /\ connections' \subseteq connections
          /\ {l \in listeners'["host"] : l.kind = "handleCall"} \subseteq HandleCallListeners]_vars

\* A frame without declared source: another window's request was accepted,
\* and the guest's request was then dispatched and ignored.
C6_Witness ==
  /\ ConnID \in connections
  /\ hostSendTo = "other"
  /\ GuestRequestDispatched
  /\ Len(hsReplies) = 1

\* ----------------------------------------------------------------------- C7
\* C7: after close() on a side, no step settles a promise of that side's
\* calls: neither one pending when close() ran nor one made afterwards.
C7_NoSettleAfterClose ==
  [][\A i \in DOMAIN calls :
       (closed[calls[i].side] > 0 /\ ~Settled(i)) => calls'[i].state = "pending"]_vars

\* ----------------------------------------------------------------------- C8
\* C8: every host close() leaves the registry without the connection
\* identifier and the host without any subscribed listener (handshake,
\* request or reply), and the worker terminated; so does a second close().
C8_HostCloseRemovesAll ==
  [][closed'["host"] > closed["host"] =>
       /\ ConnID \notin connections'
       /\ listeners'["host"] = {}
       /\ guestKind = "worker" => terminated']_vars

\* The host closed twice and made a call in between.
C8_Witness ==
  /\ closed["host"] = 2
  /\ \E i \in DOMAIN calls : calls[i].side = "host" /\ calls[i].afterClose
  /\ listeners["host"] = {}

\* ----------------------------------------------------------------------- C9
IsDouble(i) == calls[i].side = "guest" /\ calls[i].callName = "double"

NoClose == \A s \in Side : closed[s] = 0

\* A call to double settled on an open connection is resolved with 2 * (n + 1).
C9_DoubleResult ==
  \A i \in DOMAIN calls :
    (IsDouble(i) /\ Settled(i) /\ NoClose) =>
      /\ calls[i].state = "resolved"
      /\ calls[i].value = Num(2 * (calls[i].arg.n + 1))

C9_DoublePending == \E i \in DOMAIN calls : IsDouble(i) /\ ~Settled(i) /\ NoClose

\* C9: a call the guest makes to the host method double, which awaits
\* r.inc(n) on the trailing remote, does not stay pending forever on an open
\* connection, and when it settles there it is resolved with 2 * (n + 1)
\* (10 for double(4)).
C9_CallBackAnswered == [](C9_DoubleResult) /\ <>[](~C9_DoublePending)

\* double(4) resolved with 10 on an open connection, its inner call inc(4)
\* resolved with 5.
C9_Witness ==
  \E i, j \in DOMAIN calls :
    /\ calls[i].callName = "double" /\ calls[i].arg = Num(4)
    /\ calls[i].state = "resolved" /\ calls[i].value = Num(10)
    /\ calls[j].parent = i /\ calls[j].callName = "inc" /\ calls[j].value = Num(5)
    /\ NoClose

\* ---------------------------------------------------------------------- C10
\* C10: every served request produced exactly one reply with the request's
\* call ID, method name and connection ID: RPC_RESOLVE with the return value
\* when the method returned, RPC_REJECT with the error's message and stack
\* when it threw.
C10_OneReplyPerRequest ==
  \A r \in served :
    /\ Len(r.reply) = 1
    /\ r.reply[1].callID = r.callID
    /\ r.reply[1].callName = r.callName
    /\ r.reply[1].connectionID = r.conn
    /\ r.outcome = "return" => (r.reply[1].action = RPC_RESOLVE /\ r.reply[1].value = r.value)
    /\ r.outcome = "throw" =>
         /\ r.reply[1].action = RPC_REJECT
         /\ r.reply[1].value.message = r.value.message
         /\ r.reply[1].value.stack = r.value.stack

\* ---------------------------------------------------------------------- C13
GuestConfirmInFlight ==
  \E k \in 1..Len(chan["host"]) :
    chan["host"][k].action = HANDSHAKE_REPLY /\ chan["host"][k].source = "guest"

HookFailed == hook # "none" /\ guestConnect = "failed" /\ ~getTargetHostThrows(guestContext)

C13_HookOrder ==
  guestConnect = "hook" =>
    /\ remote["guest"].names = extractMethods("host")
    /\ {handleCallL(n, ConnID) : n \in extractMethods("guest")} \subseteq listeners["guest"]
    /\ ~GuestConfirmInFlight

C13_FailedHookDiscards ==
  HookFailed => (~GuestConfirmInFlight /\ hostConnect = "pending")

\* C13: while the guest's onConnectionSetup hook runs, the remote proxies and
\* the local handlers are registered and no confirming HANDSHAKE_REPLY has
\* been sent; once the hook has failed no confirmation is sent, the guest's
\* connect never resolves and the host's connect promise stays pending.
C13_HookBeforeConfirm ==
  [](C13_HookOrder /\ C13_FailedHookDiscards)
  /\ [][HookFailed => guestConnect' = "failed"]_vars

\* ---------------------------------------------------------------------- C14
\* C14: guest.connect without hostTarget in a context that is neither a
\* worker nor a frame ends with an error its caller observes (the returned
\* promise is rejected), and no handshake message is sent.
C14_NoHostRejects ==
  (getTargetHostThrows(guestContext) /\ guestConnect # "idle") =>
    /\ guestConnect = "rejected"
    /\ handleHandshakeResponseL \notin listeners["guest"]
    /\ \A k \in 1..Len(chan["host"]) : chan["host"][k].source # "guest"

\* ================================================================ echo(x)
\* An established worker connection on which nothing else happens.
CoreIdle ==
  /\ guestKind = "worker" /\ guestContext = "worker" /\ frameSrc = NoSrc /\ hook = "none"
  /\ connections = {ConnID}
  /\ hostSendTo = "guest"
  /\ remote = [s \in Side |-> [names |-> extractMethods(Peer(s)), conn |-> ConnID]]
  /\ listeners = [s \in Side |-> {handleCallL(n, ConnID) : n \in extractMethods(s)}
                                 \cup (IF s = "host" THEN {handleHandshakeL, handleHandshakeReplyL}
                                       ELSE {handleHandshakeResponseL})]
  /\ hostConnect = "resolved"
  /\ guestConnect = "resolved"
  /\ chan = [s \in Side |-> <<>>]
  /\ calls = <<>>
  /\ execs = {}
  /\ served = {}
  /\ hsReplies = <<[source |-> "guest", origin |-> GuestOrigin]>>
  /\ closed = [s \in Side |-> 0]
  /\ terminated = FALSE

Scalars ==
  {Scalar("number", k, "") : k \in {-1, 0, 1}}
  \cup {Scalar("string", 0, x) : x \in {"", "a"}}
  \cup {Scalar("boolean", b, "") : b \in {0, 1}}
  \cup {Scalar("null", 0, "")}

RECURSIVE SeqsUpTo(_, _)
SeqsUpTo(S, k) ==
  IF k = 0 THEN {<<>>}
  ELSE LET shorter == SeqsUpTo(S, k - 1)
       IN shorter \cup {Append(q, x) : q \in shorter, x \in S}

\* The JSON-cloneable values the caller passes.
JSONValues ==
  {JSON(a.t, a.n, a.s, <<>>) : a \in Scalars}
  \cup {JSON("array", 0, "", q) : q \in SeqsUpTo(Scalars, MaxItems)}
  \cup {JSON("object", 0, "", q) : q \in SeqsUpTo(Scalars, 1)}

\* v[SYM_TRANSFERABLES]: reading a property of null throws a TypeError; of any
\* other JSON value it yields undefined.
propertyReadThrows(v) == v.t \in {"null", "undefined"}

\* JavaScript truthiness (payload.result && ...).
truthy(v) ==
  CASE v.t = "number" -> v.n # 0
    [] v.t = "string" -> v.s # ""
    [] v.t = "boolean" -> v.n = 1
    [] v.t \in {"null", "undefined", "none"} -> FALSE
    [] OTHER -> TRUE

\* postMessage's structured clone of a JSON value: a copy, element by element.
structuredClone(v) ==
  JSON(v.t, v.n, v.s, [k \in 1..Len(v.items) |-> Scalar(v.items[k].t, v.items[k].n, v.items[k].s)])

EchoMsg(action, value) == [action |-> action, callName |-> "echo", value |-> value]

EchoInit ==
  /\ CoreIdle
  /\ SchemaIdle
  /\ BridgeIdle
  /\ echoArg \in JSONValues
  /\ echoCall = "idle"
  /\ echoWire = <<>>
  /\ echoResult = NoJSON
  /\ XferIdle
  /\ HubIdle

\* The proxy remote.echo(x): the executor collects the transferables of the
\* arguments (reading arg[SYM_TRANSFERABLES] of each), subscribes
\* handleResponse and posts RPC_REQUEST.  A throw in the executor rejects the
\* promise before anything is subscribed or posted.
EchoCall ==
  /\ echoCall = "idle"
  /\ IF propertyReadThrows(echoArg)
     THEN /\ echoCall' = "rejected"
          /\ echoResult' = JSON("TypeError", 0, "Cannot read properties of null", <<>>)
          /\ UNCHANGED echoWire
     ELSE /\ echoCall' = "pending"
          /\ echoWire' = Append(echoWire, EchoMsg(RPC_REQUEST, structuredClone(echoArg)))
          /\ UNCHANGED echoResult
  /\ UNCHANGED <<core, schemaVars, bridgeVars, echoArg, xferVars, hubVars>>

\* The peer's handleCall for echo: result = echo(arg) = arg; the
\* transferables marker is looked up on a truthy result only; RPC_RESOLVE.
EchoServe ==
  /\ echoCall = "pending"
  /\ Len(echoWire) = 1
  /\ LET result == echoWire[1].value
         marked == truthy(result) /\ propertyReadThrows(result)
     IN echoWire' = Append(echoWire,
                           IF marked THEN EchoMsg(RPC_REJECT, NoJSON)
                           ELSE EchoMsg(RPC_RESOLVE, structuredClone(result)))
  /\ UNCHANGED <<core, schemaVars, bridgeVars, echoArg, echoCall, echoResult, xferVars, hubVars>>

\* The caller's handleResponse.
EchoSettle ==
  /\ echoCall = "pending"
  /\ Len(echoWire) = 2
  /\ echoCall' = settle(echoWire[2].action)
  /\ echoResult' = echoWire[2].value
  /\ UNCHANGED <<core, schemaVars, bridgeVars, echoArg, echoWire, xferVars, hubVars>>

EchoNext == EchoCall \/ EchoServe \/ EchoSettle

EchoSpec == EchoInit /\ [][EchoNext]_vars

\* ============================================================ transferables
\* The objects a callback may pass to transfer.
Transferables == {"buffer", "port", "stream"}

C35_transferPrepends(transferables, x) == [transferables |-> <<x>> \o transferables, returned |-> x]

\* transfer(x) of withTransferable: transferables.push(x); return x.
transfer(transferables, x) == [transferables |-> Append(transferables, x), returned |-> x]

\* cb(transfer): the callback calls transfer on the objects of `passes`, in
\* order, and stores what each call returns in the object it builds.
RECURSIVE cb(_, _, _)
cb(passes, transferables, holds) ==
  IF passes = <<>> THEN [transferables |-> transferables, holds |-> holds]
  ELSE LET t == transfer(transferables, Head(passes))
       IN cb(Tail(passes), t.transferables, Append(holds, t.returned))

\* withTransferable(cb): Object.assign(result, {[SYM_TRANSFERABLES]: transferables}).
withTransferable(passes) ==
  LET built == cb(passes, <<>>, <<>>)
  IN Result(JSON("object", 0, "", <<>>), built.holds, Marker(built.transferables))

XferPlans ==
  {[with |-> TRUE, passes |-> q, plain |-> NoJSON] : q \in SeqsUpTo(Transferables, MaxTransfers)}
  \cup {[with |-> FALSE, passes |-> <<>>, plain |-> v] : v \in JSONValues}

XferInit ==
  /\ CoreIdle
  /\ SchemaIdle
  /\ BridgeIdle
  /\ echoArg = NoJSON
  /\ echoCall = "idle"
  /\ echoWire = <<>>
  /\ echoResult = NoJSON
  /\ HubIdle
  /\ xferPlan \in XferPlans
  /\ xferStage = "called"
  /\ xferResult = NoResult
  /\ xferReply = NoReply

\* handleCall up to its await: method(...args, remote) runs and returns its
\* result, built with withTransferable or not.
XferMethod ==
  /\ xferStage = "called"
  /\ xferStage' = "returned"
  /\ xferResult' = IF xferPlan.with THEN withTransferable(xferPlan.passes)
                   ELSE Result(xferPlan.plain, <<>>, NoMarker)
  /\ UNCHANGED <<core, schemaVars, bridgeVars, echoArg, echoCall, echoWire, echoResult, xferPlan, xferReply,
                 hubVars>>

\* handleCall after the await: if (payload.result &&
\* payload.result[SYM_TRANSFERABLES]) { transferables = ...; delete ... },
\* then postMessageToTarget(sendTo, payload, origin, transferables).
XferReply ==
  /\ xferStage = "returned"
  /\ xferStage' = "replied"
  /\ LET tagged == truthy(xferResult.value) /\ xferResult.marker.present
         result == IF tagged THEN [xferResult EXCEPT !.marker = NoMarker] ELSE xferResult
     IN /\ xferResult' = result
        /\ xferReply' = [action |-> RPC_RESOLVE, result |-> result,
                         transfer |-> IF tagged THEN [given |-> TRUE, list |-> xferResult.marker.list]
                                      ELSE NoTransfer]
  /\ UNCHANGED <<core, schemaVars, bridgeVars, echoArg, echoCall, echoWire, echoResult, xferPlan, hubVars>>

XferNext == XferMethod \/ XferReply

XferSpec == XferInit /\ [][XferNext]_vars

\* ================================================ a host with two connections
\* generateId() gives every connect call and every remote call an ID of its
\* own: a connection ID is written as the name of its connect call, a call ID
\* as the number of the call.  Every schema has one method.
HubMsg(action, connectionID, callID, source) ==
  [action |-> action, connectionID |-> connectionID, callID |-> callID, source |-> source]

HubListener(kind, k, callID) == [kind |-> kind, k |-> k, callID |-> callID]

\* listenTo of connect(guest): the worker itself, or the host's window.
hubListenTo(k) == IF hubCfg.kind = "worker" THEN hubCfg.guestOf[k] ELSE "window"

\* The endpoint whose listeners get the message event.
hubArrivesAt(event) == IF hubCfg.kind = "worker" THEN event.source ELSE "window"

\* sendTo of handleHandshake: the worker, or event.source.
hubSendTo(k, event) == IF hubCfg.kind = "worker" THEN hubCfg.guestOf[k] ELSE event.source

\* isValidTarget(guest, event) for the guest of connect call k; a frame is
\* loaded from its src, so that origin and source match together.
hubIsValidTarget(k, event) ==
  \/ hubCfg.kind = "worker"
  \/ ~hubCfg.src[hubCfg.guestOf[k]]
  \/ event.source = hubCfg.guestOf[k]

C31_ignoresConnectionID(l, event) ==
  CASE l.kind = "handleHandshake" ->
         /\ hubIsValidTarget(l.k, event)
         /\ event.action = HANDSHAKE_REQUEST
         /\ l.k \notin hubConnections
    [] l.kind = "handleHandshakeReply" ->
         /\ event.action = HANDSHAKE_REPLY
         /\ event.connectionID = l.k
         /\ l.k \in hubConnections
    [] l.kind = "handleCall" ->
         /\ event.action = RPC_REQUEST
         /\ event.callID # 0
    [] l.kind = "handleResponse" ->
         /\ event.action \in {RPC_RESOLVE, RPC_REJECT}
         /\ event.callID = l.callID
         /\ event.connectionID = l.k

\* Whether the listener gets past its early returns for the event (a
\* handleHandshakeReply that finds no connection throws).
hubAccepts(l, event) ==
  CASE l.kind = "handleHandshake" ->
         /\ hubIsValidTarget(l.k, event)
         /\ event.action = HANDSHAKE_REQUEST
         /\ l.k \notin hubConnections
    [] l.kind = "handleHandshakeReply" ->
         /\ event.action = HANDSHAKE_REPLY
         /\ event.connectionID = l.k
         /\ l.k \in hubConnections
    [] l.kind = "handleCall" ->
         /\ event.action = RPC_REQUEST
         /\ event.callID # 0
         /\ event.connectionID = l.k
    [] l.kind = "handleResponse" ->
         /\ event.action \in {RPC_RESOLVE, RPC_REJECT}
         /\ event.callID = l.callID
         /\ event.connectionID = l.k

HubCfgs ==
  {[kind |-> kind, guestOf |-> guestOf, src |-> src] :
     kind \in {"worker", "frame"}, guestOf \in [Connects -> Guests], src \in [Guests -> BOOLEAN]}

\* host.connect was called twice and neither promise is settled: each call
\* subscribed its handleHandshake and its handleHandshakeReply.
HubInit ==
  /\ CoreIdle
  /\ SchemaIdle
  /\ BridgeIdle
  /\ echoArg = NoJSON
  /\ echoCall = "idle"
  /\ echoWire = <<>>
  /\ echoResult = NoJSON
  /\ XferIdle
  /\ hubCfg \in {c \in HubCfgs : c.kind = "worker" => \A g \in Guests : c.src[g]}
  /\ hubListeners = {HubListener(kind, k, 0) : kind \in {"handleHandshake", "handleHandshakeReply"},
                                                k \in Connects}
  /\ hubConnections = {}
  /\ hubAccepted = [k \in Connects |-> NoGuest]
  /\ hubResolved = [k \in Connects |-> NoGuest]
  /\ hubIn = <<>>
  /\ hubOut = [g \in Guests |-> <<>>]
  /\ hubRequested = {}
  /\ hubGuestConns = [g \in Guests |-> {}]
  /\ hubTerminated = {}
  /\ hubCalls = {}
  /\ hubRan = {}
  /\ hubNext = 0

hubOthers == <<core, schemaVars, bridgeVars, echoArg, echoCall, echoWire, echoResult, xferVars, hubCfg>>

\* The messages the listeners of `ks` post to guest g, in the order the
\* listeners were subscribed.
RECURSIVE hubPosts(_, _, _, _)
hubPosts(order, ks, g, event) ==
  IF order = <<>> THEN <<>>
  ELSE LET k == Head(order)
           rest == hubPosts(Tail(order), ks, g, event)
       IN IF k \in ks.handshakes /\ hubSendTo(k, event) = g
          THEN <<HubMsg(HANDSHAKE_REPLY, k, 0, "host")>> \o rest
          ELSE IF k \in ks.calls /\ hubSendTo(k, [source |-> hubAccepted[k]]) = g
          THEN <<HubMsg(RPC_RESOLVE, event.connectionID, event.callID, "host")>> \o rest
          ELSE rest

\* The next message event on a listening endpoint of the host, dispatched to
\* every listener subscribed there: handleHandshake, handleHandshakeReply,
\* handleCall and handleResponse of every connect call.
HubDeliver ==
  /\ hubIn # <<>>
  /\ LET event == Head(hubIn)
         here == {l \in hubListeners : hubListenTo(l.k) = hubArrivesAt(event) /\ hubAccepts(l, event)}
         ks == [handshakes |-> {l.k : l \in {x \in here : x.kind = "handleHandshake"}},
                replies |-> {l.k : l \in {x \in here : x.kind = "handleHandshakeReply"}},
                calls |-> {l.k : l \in {x \in here : x.kind = "handleCall"}},
                responses |-> {l.k : l \in {x \in here : x.kind = "handleResponse"}}]
     IN /\ hubConnections' = hubConnections \cup ks.handshakes
        /\ hubListeners' = hubListeners \cup {HubListener("handleCall", k, 0) : k \in ks.handshakes}
        /\ hubAccepted' = [k \in Connects |-> IF k \in ks.handshakes THEN event.source ELSE hubAccepted[k]]
        /\ hubResolved' = [k \in Connects |-> IF k \in ks.replies /\ hubResolved[k] = NoGuest
                                               THEN event.source ELSE hubResolved[k]]
        /\ hubOut' = [g \in Guests |-> IF g \in hubTerminated THEN hubOut[g]
                                        ELSE hubOut[g] \o hubPosts(<<"k1", "k2">>, ks, g, event)]
        /\ hubRan' = hubRan \cup {[k |-> k, connectionID |-> event.connectionID, callID |-> event.callID]
                                     : k \in ks.calls}
        /\ hubCalls' = {IF c.k \in ks.responses /\ c.callID = event.callID /\ ~c.settled
                         THEN [c EXCEPT !.settled = TRUE, !.by = event.connectionID] ELSE c : c \in hubCalls}
  /\ hubIn' = Tail(hubIn)
  /\ UNCHANGED <<hubOthers, hubRequested, hubGuestConns, hubTerminated, hubNext>>

\* guest.connect in guest g: handleHandshakeResponse is subscribed and
\* HANDSHAKE_REQUEST posted.
HubGuestConnect(g) ==
  /\ g \notin hubRequested
  /\ g \notin hubTerminated
  /\ hubRequested' = hubRequested \cup {g}
  /\ hubIn' = Append(hubIn, HubMsg(HANDSHAKE_REQUEST, "", 0, g))
  /\ UNCHANGED <<hubOthers, hubListeners, hubConnections, hubAccepted, hubResolved, hubOut,
                 hubGuestConns, hubTerminated, hubCalls, hubRan, hubNext>>

\* The next message event in guest g: handleHandshakeResponse registers the
\* methods for the connection ID of every HANDSHAKE_REPLY and confirms it; a
\* handleCall registered for the connection ID of an RPC_REQUEST answers it.
HubGuestDeliver(g) ==
  /\ hubOut[g] # <<>>
  /\ g \notin hubTerminated
  /\ LET event == Head(hubOut[g])
         confirms == event.action = HANDSHAKE_REPLY /\ g \in hubRequested
         answers == event.action = RPC_REQUEST /\ event.connectionID \in hubGuestConns[g]
     IN /\ hubGuestConns' = [hubGuestConns EXCEPT ![g] = IF confirms THEN @ \cup {event.connectionID} ELSE @]
        /\ hubIn' = IF confirms THEN Append(hubIn, HubMsg(HANDSHAKE_REPLY, event.connectionID, 0, g))
                    ELSE IF answers
                    THEN Append(hubIn, HubMsg(RPC_RESOLVE, event.connectionID, event.callID, g))
                    ELSE hubIn
  /\ hubOut' = [hubOut EXCEPT ![g] = Tail(@)]
  /\ UNCHANGED <<hubOthers, hubListeners, hubConnections, hubAccepted, hubResolved, hubRequested,
                 hubTerminated, hubCalls, hubRan, hubNext>>

\* Guest g calls the host's method on a connection it holds: RPC_REQUEST.
HubGuestCall(g, connectionID) ==
  /\ hubNext < MaxHubCalls
  /\ g \notin hubTerminated
  /\ connectionID \in hubGuestConns[g]
  /\ hubNext' = hubNext + 1
  /\ hubIn' = Append(hubIn, HubMsg(RPC_REQUEST, connectionID, hubNext', g))
  /\ UNCHANGED <<hubOthers, hubListeners, hubConnections, hubAccepted, hubResolved, hubOut, hubRequested,
                 hubGuestConns, hubTerminated, hubCalls, hubRan>>

\* The host calls the guest's method on the connection of connect call k:
\* handleResponse is subscribed and RPC_REQUEST posted.
HubHostCall(k) ==
  /\ hubNext < MaxHubCalls
  /\ hubResolved[k] # NoGuest
  /\ k \in hubConnections
  /\ hubNext' = hubNext + 1
  /\ hubListeners' = hubListeners \cup {HubListener("handleResponse", k, hubNext')}
  /\ hubCalls' = hubCalls \cup {[k |-> k, callID |-> hubNext', settled |-> FALSE, by |-> ""]}
  /\ LET g == hubSendTo(k, [source |-> hubAccepted[k]])
     IN hubOut' = [hubOut EXCEPT ![g] = IF g \in hubTerminated THEN @
                                        ELSE Append(@, HubMsg(RPC_REQUEST, k, hubNext', "host"))]
  /\ UNCHANGED <<hubOthers, hubConnections, hubAccepted, hubResolved, hubIn, hubRequested, hubGuestConns,
                 hubTerminated, hubRan>>

\* connection.close() of connect call k: the entry of the connections map and
\* the listeners of this connect call are removed, and a worker guest is
\* terminated.
HubClose(k) ==
  /\ hubResolved[k] # NoGuest
  /\ k \in hubConnections
  /\ hubConnections' = hubConnections \ {k}
  /\ hubListeners' = {l \in hubListeners : l.k # k}
  /\ hubTerminated' = IF hubCfg.kind = "worker" THEN hubTerminated \cup {hubCfg.guestOf[k]} ELSE hubTerminated
  /\ hubOut' = [g \in Guests |-> IF g \in hubTerminated' THEN <<>> ELSE hubOut[g]]
  /\ UNCHANGED <<hubOthers, hubAccepted, hubResolved, hubIn, hubRequested, hubGuestConns, hubCalls,
                 hubRan, hubNext>>

HubNext ==
  \/ HubDeliver
  \/ \E g \in Guests :
       \/ HubGuestConnect(g)
       \/ HubGuestDeliver(g)
       \/ \E k \in Connects : HubGuestCall(g, k)
  \/ \E k \in Connects : HubHostCall(k) \/ HubClose(k)

HubSpec == HubInit /\ [][HubNext]_vars

EchoRequests == {k \in 1..Len(echoWire) : echoWire[k].action = RPC_REQUEST}

\* ---------------------------------------------------------------------- C11
\* C11: for every JSON-cloneable x, remote.echo(x) is not rejected, sends
\* exactly one RPC_REQUEST, which carries x, and resolves with a value equal
\* to x.
C11_EchoReturnsArgument ==
  /\ echoCall # "rejected"
  /\ echoCall \in {"pending", "resolved"} =>
       (Cardinality(EchoRequests) = 1 /\ \A k \in EchoRequests : echoWire[k].value = echoArg)
  /\ echoCall = "resolved" => echoResult = echoArg

\* ================================================================= schemas
\* A property name is the sequence of its dot-separated parts: "a" is <<"a">>
\* and "a.b" is <<"a", "b">>.  A schema is the sequence of its leaves in the
\* order Object.keys visits them; a leaf has the path of property names that
\* leads to it and is a function or data.
KeyAtoms == {"a", "b", "01"}
Keys == SeqsUpTo(KeyAtoms, MaxKeyLen) \ {<<>>}
Paths == SeqsUpTo(Keys, MaxDepth) \ {<<>>}
Leaf(path, kind, name) == [path |-> path, kind |-> kind, name |-> name]

IsPrefix(p, q) == Len(p) <= Len(q) /\ SubSeq(q, 1, Len(p)) = p

\* The objects a program can write: a property is a leaf or an object, never
\* both, and the properties of one object are visited together.
IsObjectTree(q) ==
  /\ \A i, j \in 1..Len(q) : i # j => ~IsPrefix(q[i].path, q[j].path)
  /\ \A i, j, k \in 1..Len(q) : \A m \in 1..MaxDepth :
       (i < j /\ j < k /\ Len(q[i].path) >= m /\ IsPrefix(SubSeq(q[i].path, 1, m), q[k].path))
         => IsPrefix(SubSeq(q[i].path, 1, m), q[j].path)

Schemas ==
  {q \in SeqsUpTo({Leaf(p, kind, <<>>) : p \in Paths, kind \in {"fn", "data"}}, MaxLeaves) :
     IsObjectTree(q)}

\* `${path}.${prop}` applied along a path: the method name, as a string.
RECURSIVE join(_)
join(path) == IF path = <<>> THEN <<>> ELSE Head(path) \o join(Tail(path))

\* extractMethods: methods[propPath] = obj[prop] for every function, in visit
\* order (a name assigned twice keeps its first place), and delete obj[prop].
RECURSIVE methodKeys(_, _)
methodKeys(q, seen) ==
  IF q = <<>> THEN seen
  ELSE LET name == join(Head(q).path)
           isNew == Head(q).kind = "fn" /\ \A k \in 1..Len(seen) : seen[k] # name
       IN methodKeys(Tail(q), IF isNew THEN Append(seen, name) ELSE seen)
withoutFunctions(q) == SelectSeq(q, LAMBDA e : e.kind # "fn")

\* extractMethods, the map itself: parse visits the leaves in order, and
\* methods[propPath] = obj[prop] replaces what the map held under propPath.
\* A function is named by the path of the leaf that holds it.
RECURSIVE parse(_, _)
parse(q, methods) ==
  IF q = <<>> THEN methods
  ELSE LET propPath == join(Head(q).path)
       IN parse(Tail(q),
                IF Head(q).kind = "fn"
                THEN {m \in methods : m.name # propPath} \cup {[name |-> propPath, fn |-> Head(q).path]}
                ELSE methods)

\* key.match(/^\d+$/) ? Number(key) : key, read back as a property name.
toPropertyKey(atom) == IF atom = "01" THEN "1" ELSE atom

\* path.split(".").map(...): one property name per part.
split(name) == [k \in 1..Len(name) |-> <<toPropertyKey(name[k])>>]

\* set(obj, path, value): a non-object met on the way is replaced by an empty
\* object, and the last key is assigned, whatever was there.
set(obj, path, value) ==
  LET pathArray == split(path)
  IN {e \in obj : ~IsPrefix(pathArray, e.path) /\ ~IsPrefix(e.path, pathArray)}
       \cup {Leaf(pathArray, "rpc", value)}

\* registerRemoteMethods: remote = {...schema}, then set(remote, methodName,
\* rpc) for each method name in turn; rpc sends RPC_REQUEST for methodName.
RECURSIVE registerRemoteMethods(_, _)
registerRemoteMethods(schema, methodNames) ==
  IF methodNames = <<>> THEN schema
  ELSE registerRemoteMethods(set(schema, Head(methodNames), Head(methodNames)), Tail(methodNames))

SchemaInit ==
  /\ CoreIdle
  /\ EchoIdle
  /\ BridgeIdle
  /\ schLocal \in Schemas
  /\ schWire = NoWire
  /\ schRemote = NoTree
  /\ schMethods = {}

\* connect on the advertising side: extractMethods(schema), then the handshake
\* payload {methodNames, schema}.
SchemaAdvertise ==
  /\ ~schWire.sent
  /\ schLocal' = withoutFunctions(schLocal)
  /\ schMethods' = parse(schLocal, {})
  /\ schWire' = [sent |-> TRUE, methodNames |-> methodKeys(schLocal, <<>>),
                 schema |-> {schLocal[k] : k \in {i \in 1..Len(schLocal) : schLocal[i].kind # "fn"}}]
  /\ UNCHANGED <<core, echoVars, bridgeVars, schRemote>>

\* The peer's handshake handler: registerRemoteMethods(payload.schema,
\* payload.methodNames, ...).
SchemaRegister ==
  /\ schWire.sent
  /\ ~schRemote.built
  /\ schRemote' = [built |-> TRUE, leaves |-> registerRemoteMethods(schWire.schema, schWire.methodNames)]
  /\ UNCHANGED <<core, echoVars, bridgeVars, schLocal, schWire, schMethods>>

SchemaNext == SchemaAdvertise \/ SchemaRegister

SchemaSpec == SchemaInit /\ [][SchemaNext]_vars

\* Following the dotted path of a method name on the remote tree.
dottedPath(name) == [k \in 1..Len(name) |-> <<name[k]>>]

\* ---------------------------------------------------------------------- C12
\* C12: once the handshake has built the remote tree, every advertised method
\* name leads, along its dotted path, to a proxy that sends RPC_REQUEST for
\* exactly that name, and every non-function leaf of the advertised schema is
\* present as data at its path.
C12_RemoteMirrorsSchema ==
  schRemote.built =>
    /\ \A k \in 1..Len(schWire.methodNames) :
         Leaf(dottedPath(schWire.methodNames[k]), "rpc", schWire.methodNames[k]) \in schRemote.leaves
    /\ \A e \in schWire.schema : Leaf(e.path, "data", <<>>) \in schRemote.leaves

\* ================================================================== bridge
\* The connect calls followed: port p1 opens channel "c" as tab "t1"; the
\* other two pick a channel and a tab ID that is in use or the next free one.
TabOptions ==
  {o \in [Ports -> [tabID : TabIDs, channel : Channels]] :
     /\ o["p1"] = [tabID |-> "t1", channel |-> "c"]
     /\ o["p2"].tabID \in {"t1", "t2"}
     /\ o["p3"].tabID = "t3" => o["p2"].tabID = "t2"}

roster(tabs) == {t \in TabIDs : tabs[t] # NoPort}

C23_oneChannel(channelName) ==
  IF channels["c"].exists THEN channels["c"]
  ELSE [exists |-> TRUE, tabs |-> [t \in TabIDs |-> NoPort], sharedState |-> Absent]

\* getOrCreateChannel: channels.get(channelName), created empty when missing.
getOrCreateChannel(channelName) ==
  IF channels[channelName].exists THEN channels[channelName]
  ELSE [exists |-> TRUE, tabs |-> [t \in TabIDs |-> NoPort], sharedState |-> Absent]

\* Object.assign(target, source) on the one key: source's value when it has
\* the key.
assign(target, source) == IF source = Absent THEN target ELSE source

\* The ports on which nothing posted by the relay is dispatched: closed by
\* the relay, or closed by the tab.
shut == closedPorts \cup {q \in Ports : tabState[q] \in {"closed", "gone"}}

\* connection.port.postMessage(msg) for every tab of `recipients`.
toEach(tabs, recipients, msg) ==
  [q \in Ports |-> IF \E t \in recipients : tabs[t] = q THEN <<msg>> ELSE <<>>]

C21_deliverFirst(posts) == [q \in Ports |-> IF q \in shut THEN portOut[q] ELSE posts[q] \o portOut[q]]

deliver(posts) == [q \in Ports |-> IF q \in shut THEN portOut[q] ELSE portOut[q] \o posts[q]]

C39_sendsWhenEvicted(p, msgs) == [portIn EXCEPT ![p] = IF tabState[p] = "closed" THEN @ ELSE @ \o msgs]

C29_sendsWhenClosed(p, msgs) == [portIn EXCEPT ![p] = IF p \in closedPorts THEN @ ELSE @ \o msgs]

\* port.postMessage(msg) on the tab's side; nothing arrives once the relay
\* closed its end, and nothing is posted once the tab closed its own.
send(p, msgs) ==
  [portIn EXCEPT ![p] = IF p \in closedPorts \/ tabState[p] = "closed" THEN @ ELSE @ \o msgs]

\* Three pages loaded, no connect call made yet, the relay started: the
\* connect calls will pass one of `options`, and the applications will make
\* `budget` calls.
BridgeInit(options, budget) ==
  /\ CoreIdle
  /\ EchoIdle
  /\ SchemaIdle
  /\ tabOptions \in options
  /\ tabState = [p \in Ports |-> "idle"]
  /\ sharedStateCache = [p \in Ports |-> Absent]
  /\ remoteFn = [p \in Ports |-> Absent]
  /\ portIn = [p \in Ports |-> <<>>]
  /\ portOut = [p \in Ports |-> <<>>]
  /\ channels = [c \in Channels |-> NoChannel]
  /\ closedPorts = {}
  /\ handled = [port |-> NoPort, msg |-> NoBridgeMsg]
  /\ posted = [q \in Ports |-> <<>>]
  /\ ops = budget
  /\ written = [c \in Channels |-> Absent]
  /\ runs = [p \in Ports |-> 0]
  /\ returned = [p \in Ports |-> NoOutcome]
  /\ tabsCalls = [p \in Ports |-> <<>>]
  /\ tabsResolved = [p \in Ports |-> <<>>]

RelayInit == BridgeInit(TabOptions, MaxOps)

\* ------------------------------------------------------------ relay handlers
Arrived(p, action) == portIn[p] # <<>> /\ Head(portIn[p]).action = action

\* Whether a handshake re-seeds the dictionary: channel.tabs.size === 1 &&
\* payload.schema (a schema object is always sent).
seeds(tabs) == Cardinality(roster(tabs)) = 1

C17_closesNothing(existing) == {}

\* existingConnection.port.close(): the port of the previous holder, if any.
closes(existing) == {existing} \ {NoPort}

\* handleHandshake.
RelayHandshake(p) ==
  /\ Arrived(p, BRIDGE_HANDSHAKE)
  /\ LET payload == Head(portIn[p])
         channel == getOrCreateChannel(payload.channel)
         existing == channel.tabs[payload.tabID]
         duplicate == existing # NoPort
         tabs == [channel.tabs EXCEPT ![payload.tabID] = p]
         sharedState == IF seeds(tabs) THEN assign(channel.sharedState, payload.value)
                        ELSE channel.sharedState
         err == BridgeMsg(BRIDGE_HANDSHAKE_ERROR, payload.tabID, payload.channel, "", Absent,
                          DUPLICATE_TAB_ID)
         ack == BridgeMsg(BRIDGE_HANDSHAKE_ACK, payload.tabID, payload.channel, "", sharedState, "")
     IN /\ channels' = [channels EXCEPT ![payload.channel] =
                          [exists |-> TRUE, tabs |-> tabs, sharedState |-> sharedState]]
        /\ posted' = [q \in Ports |-> (IF duplicate /\ q = existing THEN <<err>> ELSE <<>>)
                                        \o (IF q = p THEN <<ack>> ELSE <<>>)]
        /\ closedPorts' = closedPorts \cup closes(existing)
        /\ portIn' = [q \in Ports |-> IF q \in closes(existing) THEN <<>>
                                       ELSE IF q = p THEN Tail(portIn[p]) ELSE portIn[q]]
        /\ portOut' = [q \in Ports |-> IF q \in shut THEN portOut[q]
                                        ELSE IF duplicate /\ q = existing THEN Append(portOut[q], err)
                                        ELSE portOut[q] \o posted'[q]]
        /\ handled' = [port |-> p, msg |-> payload]
  /\ UNCHANGED <<core, echoVars, schemaVars, tabOptions, tabVars, appVars, callVars>>

relayPayload(payload) ==
  [BridgeMsg(BRIDGE_RELAY, payload.tabID, "", "", payload.value, "")
     EXCEPT !.methodName = payload.methodName, !.error = payload.error]

C15_broadcastEchoes(tabs, senderTabID) == roster(tabs)

\* handleBroadcast: every tab of the channel but the one named senderTabID.
broadcastRecipients(tabs, senderTabID) == roster(tabs) \ {senderTabID}

RelayBroadcast(p) ==
  /\ Arrived(p, BRIDGE_BROADCAST)
  /\ LET payload == Head(portIn[p])
         channel == channels[payload.channel]
     IN /\ posted' = IF ~channel.exists THEN [q \in Ports |-> <<>>]
                     ELSE toEach(channel.tabs, broadcastRecipients(channel.tabs, payload.tabID),
                                 relayPayload(payload))
        /\ handled' = [port |-> p, msg |-> payload]
  /\ portIn' = [portIn EXCEPT ![p] = Tail(@)]
  /\ portOut' = deliver(posted')
  /\ UNCHANGED <<core, echoVars, schemaVars, tabOptions, tabVars, relayVars, appVars, callVars>>

C16_directToAll(tabs, targetTabID) == roster(tabs)

\* handleDirectMessage: channel.tabs.get(targetTabID), nobody when missing.
directRecipients(tabs, targetTabID) == roster(tabs) \cap {targetTabID}

RelayDirectMessage(p) ==
  /\ Arrived(p, BRIDGE_DIRECT_MESSAGE)
  /\ LET payload == Head(portIn[p])
         channel == channels[payload.channel]
     IN /\ posted' = IF ~channel.exists THEN [q \in Ports |-> <<>>]
                     ELSE toEach(channel.tabs, directRecipients(channel.tabs, payload.targetTabID),
                                 relayPayload(payload))
        /\ handled' = [port |-> p, msg |-> payload]
  /\ portIn' = [portIn EXCEPT ![p] = Tail(@)]
  /\ portOut' = deliver(posted')
  /\ UNCHANGED <<core, echoVars, schemaVars, tabOptions, tabVars, relayVars, appVars, callVars>>

C19_stateToNobody(tabs) == {}

\* The BRIDGE_SET_STATE case of port.onmessage: every tab of the channel.
stateRecipients(tabs) == roster(tabs)

RelaySetState(p) ==
  /\ Arrived(p, BRIDGE_SET_STATE)
  /\ LET data == Head(portIn[p])
         channel == getOrCreateChannel(data.channel)
     IN /\ channels' = [channels EXCEPT ![data.channel] = [channel EXCEPT !.sharedState = data.value]]
        /\ posted' = toEach(channel.tabs, stateRecipients(channel.tabs),
                            BridgeMsg(BRIDGE_STATE_UPDATE, "", "", "", data.value, ""))
        /\ handled' = [port |-> p, msg |-> data]
  /\ portIn' = [portIn EXCEPT ![p] = Tail(@)]
  /\ portOut' = deliver(posted')
  /\ UNCHANGED <<core, echoVars, schemaVars, tabOptions, tabVars, closedPorts, appVars, callVars>>

\* handleDisconnect: the tab ID leaves the roster; an empty channel is deleted.
RelayDisconnect(p) ==
  /\ Arrived(p, BRIDGE_DISCONNECT)
  /\ LET payload == Head(portIn[p])
         channel == channels[payload.channel]
         tabs == [channel.tabs EXCEPT ![payload.tabID] = NoPort]
     IN /\ channels' = IF channel.exists /\ channel.tabs[payload.tabID] # NoPort
                       THEN [channels EXCEPT ![payload.channel] =
                               IF roster(tabs) = {} THEN NoChannel ELSE [channel EXCEPT !.tabs = tabs]]
                       ELSE channels
        /\ handled' = [port |-> p, msg |-> payload]
  /\ posted' = [q \in Ports |-> <<>>]
  /\ portIn' = [portIn EXCEPT ![p] = Tail(@)]
  /\ UNCHANGED <<core, echoVars, schemaVars, tabOptions, tabVars, portOut, closedPorts, appVars, callVars>>

\* handleGetTabs: the tab IDs of the channel, none when it does not exist,
\* posted to the requesting port.
RelayGetTabs(p) ==
  /\ Arrived(p, BRIDGE_GET_TABS)
  /\ LET payload == Head(portIn[p])
         channel == channels[payload.channel]
         tabIDs == IF channel.exists THEN roster(channel.tabs) ELSE {}
         responsePayload == [BridgeMsg(BRIDGE_TABS_RESPONSE, "", payload.channel, "", Absent, "")
                               EXCEPT !.tabIDs = tabIDs, !.req = payload.req]
     IN /\ posted' = [q \in Ports |-> IF q = p THEN <<responsePayload>> ELSE <<>>]
        /\ handled' = [port |-> p, msg |-> payload]
  /\ portIn' = [portIn EXCEPT ![p] = Tail(@)]
  /\ portOut' = deliver(posted')
  /\ UNCHANGED <<core, echoVars, schemaVars, tabOptions, tabVars, relayVars, appVars, callVars>>

\* -------------------------------------------------------------- tab handlers
Received(p, action) ==
  portOut[p] # <<>> /\ Head(portOut[p]).action = action /\ tabState[p] \notin {"closed", "gone"}

\* bridge.connect(schema, options): the handshake is posted.
TabConnect(p) ==
  /\ tabState[p] = "idle"
  /\ tabState' = [tabState EXCEPT ![p] = "handshaking"]
  /\ portIn' = send(p, <<BridgeMsg(BRIDGE_HANDSHAKE, tabOptions[p].tabID, tabOptions[p].channel,
                                   "", Seed, "")>>)
  /\ UNCHANGED <<core, echoVars, schemaVars, tabOptions, sharedStateCache, remoteFn, portOut,
                 relayVars, handled, posted, appVars, callVars>>

\* handleHandshakeAck: the cache takes payload.sharedState, remoteBase.counter
\* becomes an accessor over the cache, and Object.assign(remoteFn, remoteBase)
\* copies what the accessor returns at that moment into an own property of
\* remoteFn.
TabHandshakeAck(p) ==
  /\ Received(p, BRIDGE_HANDSHAKE_ACK)
  /\ LET payload == Head(portOut[p])
         cache == assign(sharedStateCache[p], payload.value)
     IN IF payload.tabID # tabOptions[p].tabID
        THEN UNCHANGED tabVars
        ELSE /\ sharedStateCache' = [sharedStateCache EXCEPT ![p] = cache]
             /\ remoteFn' = [remoteFn EXCEPT ![p] = IF payload.value = Absent THEN Seed ELSE cache]
             /\ tabState' = [tabState EXCEPT ![p] = IF @ = "handshaking" THEN "connected" ELSE @]
  /\ portOut' = [portOut EXCEPT ![p] = Tail(@)]
  /\ UNCHANGED <<core, echoVars, schemaVars, tabOptions, portIn, relayVars, handled, posted, appVars, callVars>>

\* The BRIDGE_HANDSHAKE_ERROR case: reject, which does nothing once resolved.
TabHandshakeError(p) ==
  /\ Received(p, BRIDGE_HANDSHAKE_ERROR)
  /\ tabState' = [tabState EXCEPT ![p] = IF @ = "handshaking" THEN "rejected" ELSE @]
  /\ portOut' = [portOut EXCEPT ![p] = Tail(@)]
  /\ UNCHANGED <<core, echoVars, schemaVars, tabOptions, sharedStateCache, remoteFn, portIn,
                 relayVars, handled, posted, appVars, callVars>>

\* The BRIDGE_STATE_UPDATE case: sharedStateCache[data.key] = data.value.
TabStateUpdate(p) ==
  /\ Received(p, BRIDGE_STATE_UPDATE)
  /\ sharedStateCache' = [sharedStateCache EXCEPT ![p] = Head(portOut[p]).value]
  /\ portOut' = [portOut EXCEPT ![p] = Tail(@)]
  /\ UNCHANGED <<core, echoVars, schemaVars, tabOptions, tabState, remoteFn, portIn,
                 relayVars, handled, posted, appVars, callVars>>

\* The schema of every tab: counter: 0, inc: (n, r) => { r.counter = n;
\* return n }, and fail, which throws: an Error, or undefined as a bare
\* reject() does.
Methods == {"inc", "fail"}
Thrown == {"Error", "undefined"}

\* JavaScript truthiness of a caught value, as in error ? ... : undefined
\* and if (error) throw error.
isTruthy(error) == error # "undefined"

\* JSON.parse(JSON.stringify(error, Object.getOwnPropertyNames(error))): the
\* plain object holding the own properties stack and message of the Error.
serialize(error) == IF error = "Error" THEN "{stack,message}" ELSE error

\* try { result = await methodFn(...args, remote) } catch (e) { error = e }
\* for args = [v], where fail throws e.
execute(methodName, v, e) ==
  IF methodName = "fail" THEN [threw |-> TRUE, result |-> Absent, error |-> e]
  ELSE [threw |-> FALSE, result |-> v, error |-> NoError]

C26_returnsNothing(x) ==
  [threw |-> x.threw, settled |-> IF isTruthy(x.error) THEN "rejected" ELSE "resolved",
   result |-> Absent, error |-> IF isTruthy(x.error) THEN x.error ELSE NoError]

\* if (error) throw error; return result.
callOutcome(x) ==
  [threw |-> x.threw, settled |-> IF isTruthy(x.error) THEN "rejected" ELSE "resolved",
   result |-> IF isTruthy(x.error) THEN Absent ELSE x.result,
   error |-> IF isTruthy(x.error) THEN x.error ELSE NoError]

C34_skipsThrowing(p, methodName) == tabState[p] = "connected" /\ methodName = "inc"

\* const methodFn = methods[methodName]; if (!methodFn) return: whether the
\* handleRelay of tab p finds the method.  BRIDGE_RELAY reaches handleRelay
\* once the acknowledgement installed it.
methodFn(p, methodName) == tabState[p] = "connected" /\ methodName \in Methods

\* handleRelay: methods[methodName](...args, remote) with the Proxy over
\* remoteFn, so that r.counter = n assigns the own property of remoteFn; what
\* the method throws is caught and logged.  Before the acknowledgement the
\* first handler ignores BRIDGE_RELAY.
TabRelay(p) ==
  /\ Received(p, BRIDGE_RELAY)
  /\ LET payload == Head(portOut[p])
         runsIt == methodFn(p, payload.methodName)
     IN /\ runs' = [runs EXCEPT ![p] = IF runsIt THEN @ + 1 ELSE @]
        /\ remoteFn' = [remoteFn EXCEPT ![p] = IF runsIt /\ payload.methodName = "inc"
                                               THEN payload.value ELSE @]
  /\ portOut' = [portOut EXCEPT ![p] = Tail(@)]
  /\ UNCHANGED <<core, echoVars, schemaVars, tabOptions, tabState, sharedStateCache, portIn,
                 relayVars, handled, posted, appVars, returned, tabsCalls, tabsResolved>>

\* ------------------------------------------------------------ the application
\* The accessor's set, run by inc(n, remoteBase): the cache, then
\* BRIDGE_SET_STATE.
setState(p, v) == BridgeMsg(BRIDGE_SET_STATE, "", tabOptions[p].channel, "", v, "")

\* The tab is in the roster of its channel, under its port.
Registered(p) ==
  /\ tabState[p] = "connected"
  /\ channels[tabOptions[p].channel].tabs[tabOptions[p].tabID] = p

\* One more application call, a write of v by tab p.
wrote(p, v) ==
  /\ ops > 0
  /\ ops' = ops - 1
  /\ written' = IF Registered(p) THEN [written EXCEPT ![tabOptions[p].channel] = v] ELSE written

\* One more application call or page unload that writes nothing.
called ==
  /\ ops > 0
  /\ ops' = ops - 1
  /\ UNCHANGED written

\* The payload of createBroadcastProxy and createDirectMessageProxy.
callPayload(p, action, targetTabID, methodName, v, error) ==
  [BridgeMsg(action, tabOptions[p].tabID, tabOptions[p].channel, targetTabID, v, "")
     EXCEPT !.methodName = methodName,
            !.error = IF isTruthy(error) THEN serialize(error) ELSE NoError]

\* The function createBroadcastProxy and createDirectMessageProxy return,
\* called with args = [v]: the method runs here with remoteBase as its last
\* argument, the payload is posted, the promise settles.
proxy(p, action, targetTabID, methodName, v, e) ==
  LET x == execute(methodName, v, e)
      payload == callPayload(p, action, targetTabID, methodName, v, x.error)
  IN /\ runs' = [runs EXCEPT ![p] = @ + 1]
     /\ returned' = [returned EXCEPT ![p] = callOutcome(x)]
     /\ IF methodName = "inc"
        THEN /\ wrote(p, v)
             /\ sharedStateCache' = [sharedStateCache EXCEPT ![p] = v]
             /\ portIn' = send(p, <<setState(p, v), payload>>)
        ELSE /\ called
             /\ UNCHANGED sharedStateCache
             /\ portIn' = send(p, <<payload>>)
     /\ UNCHANGED <<core, echoVars, schemaVars, tabOptions, tabState, remoteFn, portOut,
                    relayVars, handled, posted, tabsCalls, tabsResolved>>

\* connection.remote.inc(v), the broadcast proxy: inc(v, remoteBase) runs
\* here, then BRIDGE_BROADCAST.
TabCallInc(p, v) ==
  /\ tabState[p] = "connected"
  /\ proxy(p, BRIDGE_BROADCAST, "", "inc", v, NoError)

\* connection.remote(targetTabID).inc(v), the direct message proxy.
TabCallIncOn(p, targetTabID, v) ==
  /\ tabState[p] = "connected"
  /\ proxy(p, BRIDGE_DIRECT_MESSAGE, targetTabID, "inc", v, NoError)

\* connection.remote.fail(v), where fail throws e.
TabCallFail(p, v, e) ==
  /\ tabState[p] = "connected"
  /\ proxy(p, BRIDGE_BROADCAST, "", "fail", v, e)

\* connection.remote(targetTabID).fail(v), where fail throws e.
TabCallFailOn(p, targetTabID, v, e) ==
  /\ tabState[p] = "connected"
  /\ proxy(p, BRIDGE_DIRECT_MESSAGE, targetTabID, "fail", v, e)

\* connection.getConnectedTabs(): responseHandler is added to the port's
\* "message" listeners, then BRIDGE_GET_TABS is posted.
TabGetTabs(p) ==
  /\ tabState[p] = "connected"
  /\ called
  /\ LET n == Len(tabsCalls[p]) + Len(tabsResolved[p]) + 1
     IN /\ tabsCalls' = [tabsCalls EXCEPT ![p] = Append(@, n)]
        /\ portIn' = send(p, <<[BridgeMsg(BRIDGE_GET_TABS, tabOptions[p].tabID, tabOptions[p].channel,
                                          "", Absent, "") EXCEPT !.req = n]>>)
  /\ UNCHANGED <<core, echoVars, schemaVars, tabOptions, tabVars, portOut, relayVars, handled, posted,
                 runs, returned, tabsResolved>>

\* A BRIDGE_TABS_RESPONSE is dispatched: port.onmessage has no case for it,
\* and every responseHandler on the port sees action and channel match,
\* removes itself and resolves its promise with data.tabIDs.
TabTabsResponse(p) ==
  /\ Received(p, BRIDGE_TABS_RESPONSE)
  /\ LET data == Head(portOut[p])
         matches == data.channel = tabOptions[p].channel
         resolved == [i \in 1..Len(tabsCalls[p]) |->
                        [call |-> tabsCalls[p][i], tabIDs |-> data.tabIDs, req |-> data.req]]
     IN /\ tabsCalls' = [tabsCalls EXCEPT ![p] = IF matches THEN <<>> ELSE @]
        /\ tabsResolved' = [tabsResolved EXCEPT ![p] = IF matches THEN @ \o resolved ELSE @]
  /\ portOut' = [portOut EXCEPT ![p] = Tail(@)]
  /\ UNCHANGED <<core, echoVars, schemaVars, tabOptions, tabVars, portIn, relayVars, handled, posted,
                 appVars, runs, returned>>

\* connection.remote.counter = v: the Proxy's set trap, Reflect.set on
\* remoteFn, whose counter is a plain own property.
TabWriteCounter(p, v) ==
  /\ tabState[p] = "connected"
  /\ wrote(p, v)
  /\ remoteFn' = [remoteFn EXCEPT ![p] = v]
  /\ UNCHANGED <<core, echoVars, schemaVars, tabOptions, tabState, sharedStateCache, portIn, portOut,
                 relayVars, handled, posted, callVars>>

\* connection.close(): BRIDGE_DISCONNECT, then port.close(); on a connection
\* closed before, both act on a closed port.
TabClose(p) ==
  /\ tabState[p] \in {"connected", "closed"}
  /\ called
  /\ tabState' = [tabState EXCEPT ![p] = "closed"]
  /\ portIn' = send(p, <<BridgeMsg(BRIDGE_DISCONNECT, tabOptions[p].tabID, tabOptions[p].channel,
                                   "", Absent, "")>>)
  /\ portOut' = [portOut EXCEPT ![p] = <<>>]
  /\ UNCHANGED <<core, echoVars, schemaVars, tabOptions, sharedStateCache, remoteFn,
                 relayVars, handled, posted, callVars>>

\* The page goes away without connection.close(): the tab is closed, it
\* crashes or navigates.  Nothing is posted, and nothing posted to its port
\* is dispatched any more.
TabUnload(p) ==
  /\ tabState[p] \in {"handshaking", "connected"}
  /\ called
  /\ tabState' = [tabState EXCEPT ![p] = "gone"]
  /\ portOut' = [portOut EXCEPT ![p] = <<>>]
  /\ UNCHANGED <<core, echoVars, schemaVars, tabOptions, sharedStateCache, remoteFn, portIn,
                 relayVars, handled, posted, callVars>>

RelayNext ==
  \E p \in Ports :
    \/ RelayHandshake(p)
    \/ RelayBroadcast(p)
    \/ RelayDirectMessage(p)
    \/ RelaySetState(p)
    \/ RelayDisconnect(p)
    \/ RelayGetTabs(p)
    \/ TabConnect(p)
    \/ TabHandshakeAck(p)
    \/ TabHandshakeError(p)
    \/ TabStateUpdate(p)
    \/ TabRelay(p)
    \/ TabTabsResponse(p)
    \/ TabGetTabs(p)
    \/ TabClose(p)
    \/ TabUnload(p)
    \/ \E v \in WriteValues :
         \/ TabCallInc(p, v)
         \/ TabWriteCounter(p, v)
         \/ \E t \in TabIDs : TabCallIncOn(p, t, v)
         \/ \E e \in Thrown :
              \/ TabCallFail(p, v, e)
              \/ \E t \in TabIDs : TabCallFailOn(p, t, v, e)

RelaySpec == RelayInit /\ [][RelayNext]_vars

\* Every posted message is handled in the end: the relay and the tabs run
\* their handlers as tasks of their event loops.
RelayFairSpec == RelaySpec /\ WF_vars(\E p \in Ports :
                                        \/ RelayHandshake(p) \/ RelayBroadcast(p)
                                        \/ RelayDirectMessage(p) \/ RelaySetState(p)
                                        \/ RelayDisconnect(p) \/ RelayGetTabs(p)
                                        \/ TabHandshakeAck(p)
                                        \/ TabHandshakeError(p) \/ TabStateUpdate(p)
                                        \/ TabRelay(p) \/ TabTabsResponse(p))

\* Three tabs "t1", "t2" and "t3" that join the same channel "c" and then
\* write through inc, ask for the roster and close, MaxSyncOps times in all.
SyncOptions == {o \in TabOptions : o["p3"].tabID = "t3" /\ \A p \in Ports : o[p].channel = "c"}

SyncInit == BridgeInit(SyncOptions, MaxSyncOps)

SyncNext ==
  \E p \in Ports :
    \/ RelayHandshake(p)
    \/ RelayBroadcast(p)
    \/ RelaySetState(p)
    \/ RelayDisconnect(p)
    \/ RelayGetTabs(p)
    \/ TabConnect(p)
    \/ TabHandshakeAck(p)
    \/ TabStateUpdate(p)
    \/ TabRelay(p)
    \/ TabTabsResponse(p)
    \/ TabGetTabs(p)
    \/ TabClose(p)
    \/ \E v \in SyncValues : TabCallInc(p, v)

SyncSpec == SyncInit /\ [][SyncNext]_vars

\* The relay's BRIDGE_GET_STATE case, which the bridge client never uses: a
\* script of a page posts the message on the page's port to the worker.
PostGetState(p, channelName) ==
  /\ tabState[p] \notin {"closed", "gone"}
  /\ called
  /\ portIn' = send(p, <<BridgeMsg(BRIDGE_GET_STATE, "", channelName, "", Absent, "")>>)
  /\ UNCHANGED <<core, echoVars, schemaVars, tabOptions, tabVars, portOut, relayVars, handled, posted,
                 callVars>>

\* The BRIDGE_GET_STATE case of port.onmessage: getOrCreateChannel, then the
\* channel's dictionary is posted to the asking port.
RelayGetState(p) ==
  /\ Arrived(p, BRIDGE_GET_STATE)
  /\ LET data == Head(portIn[p])
         channel == getOrCreateChannel(data.channel)
     IN /\ channels' = [channels EXCEPT ![data.channel] = channel]
        /\ posted' = [q \in Ports |->
                        IF q = p THEN <<BridgeMsg(BRIDGE_STATE_RESPONSE, "", "", "", channel.sharedState, "")>>
                        ELSE <<>>]
        /\ handled' = [port |-> p, msg |-> data]
  /\ portIn' = [portIn EXCEPT ![p] = Tail(@)]
  /\ portOut' = deliver(posted')
  /\ UNCHANGED <<core, echoVars, schemaVars, tabOptions, tabVars, closedPorts, appVars, callVars>>

\* A BRIDGE_STATE_RESPONSE is dispatched: neither port.onmessage nor a
\* responseHandler has a case for it.
TabStateResponse(p) ==
  /\ Received(p, BRIDGE_STATE_RESPONSE)
  /\ portOut' = [portOut EXCEPT ![p] = Tail(@)]
  /\ UNCHANGED <<core, echoVars, schemaVars, tabOptions, tabVars, portIn, relayVars, handled, posted,
                 appVars, callVars>>

\* connection.remote.log(v) on a tab whose schema has, besides inc and fail,
\* a method log that the schemas of the other tabs do not have.
TabCallLog(p, v) ==
  /\ tabState[p] = "connected"
  /\ proxy(p, BRIDGE_BROADCAST, "", "log", v, NoError)

WireNext ==
  \/ RelayNext
  \/ \E p \in Ports :
       \/ RelayGetState(p)
       \/ TabStateResponse(p)
       \/ \E c \in Channels : PostGetState(p, c)
       \/ \E v \in WriteValues : TabCallLog(p, v)

\* The relay, the three tabs, and page scripts that use the relay's
\* BRIDGE_GET_STATE message.
WireSpec == RelayInit /\ [][WireNext]_vars

\* -------------------------------------------------- the relay, failing sends
\* A connection.port.postMessage(msg) that threw: the call is recorded with
\* its exception, and nothing is queued on the port.
failedPost(msg) == [msg EXCEPT !.code = "DataCloneError"]

C33_abortsOnThrow(tabs, recipients, failing, msg) ==
  [q \in Ports |-> IF \E t \in recipients : tabs[t] = q
                   THEN (IF q \in failing THEN <<failedPost(msg)>>
                         ELSE IF failing # {} THEN <<>> ELSE <<msg>>)
                   ELSE <<>>]

\* for (const [tabID, connection] of channel.tabs.entries()) { try {
\* connection.port.postMessage(msg) } catch (error) { console.error(...) } },
\* where the calls on the ports of `failing` throw.
fanOut(tabs, recipients, failing, msg) ==
  [q \in Ports |-> IF \E t \in recipients : tabs[t] = q
                   THEN (IF q \in failing THEN <<failedPost(msg)>> ELSE <<msg>>)
                   ELSE <<>>]

\* What the calls queued on the ports.
queued(posts) == [q \in Ports |-> SelectSeq(posts[q], LAMBDA m : m.code # "DataCloneError")]

\* handleBroadcast, with postMessage throwing on the ports of `failing`.
RelayBroadcastFailing(p, failing) ==
  /\ Arrived(p, BRIDGE_BROADCAST)
  /\ LET payload == Head(portIn[p])
         channel == channels[payload.channel]
         recipients == broadcastRecipients(channel.tabs, payload.tabID)
     IN /\ channel.exists
        /\ failing # {}
        /\ failing \subseteq {channel.tabs[t] : t \in recipients}
        /\ posted' = fanOut(channel.tabs, recipients, failing, relayPayload(payload))
        /\ handled' = [port |-> p, msg |-> payload]
  /\ portIn' = [portIn EXCEPT ![p] = Tail(@)]
  /\ portOut' = deliver(queued(posted'))
  /\ UNCHANGED <<core, echoVars, schemaVars, tabOptions, tabVars, relayVars, appVars, callVars>>

\* The BRIDGE_SET_STATE case, with postMessage throwing on the ports of
\* `failing`.
RelaySetStateFailing(p, failing) ==
  /\ Arrived(p, BRIDGE_SET_STATE)
  /\ LET data == Head(portIn[p])
         channel == getOrCreateChannel(data.channel)
         recipients == stateRecipients(channel.tabs)
     IN /\ failing # {}
        /\ failing \subseteq {channel.tabs[t] : t \in recipients}
        /\ channels' = [channels EXCEPT ![data.channel] = [channel EXCEPT !.sharedState = data.value]]
        /\ posted' = fanOut(channel.tabs, recipients, failing,
                            BridgeMsg(BRIDGE_STATE_UPDATE, "", "", "", data.value, ""))
        /\ handled' = [port |-> p, msg |-> data]
  /\ portIn' = [portIn EXCEPT ![p] = Tail(@)]
  /\ portOut' = deliver(queued(posted'))
  /\ UNCHANGED <<core, echoVars, schemaVars, tabOptions, tabVars, closedPorts, appVars, callVars>>

FaultNext ==
  \/ RelayNext
  \/ \E p \in Ports : \E failing \in SUBSET Ports :
       \/ RelayBroadcastFailing(p, failing)
       \/ RelaySetStateFailing(p, failing)

\* The relay and the three tabs, where a postMessage of a fan-out may throw.
FaultSpec == RelayInit /\ [][FaultNext]_vars

\* ------------------------------------------------------------ bridge claims
\* The step is the relay handling the message at the head of port p.
Handles(p, action) ==
  /\ Arrived(p, action)
  /\ portIn'[p] = Tail(portIn[p])
  /\ handled' = [port |-> p, msg |-> Head(portIn[p])]

\* The BRIDGE_RELAY of call m: its sender, method, argument and error.
RelayOf(m) ==
  [BridgeMsg(BRIDGE_RELAY, m.tabID, "", "", m.value, "")
     EXCEPT !.methodName = m.methodName, !.error = m.error]

\* The ports of the given tabs of a roster.
portsOf(tabs, ids) == {tabs[t] : t \in ids} \ {NoPort}

OnlyTo(posts, recipients, msg) ==
  \A q \in Ports : posts[q] = IF q \in recipients THEN <<msg>> ELSE <<>>

\* ---------------------------------------------------------------------- C15
\* C15: when the relay handles a BRIDGE_BROADCAST from tab T on channel C, it
\* posts one BRIDGE_RELAY to each tab that is in C's roster at that moment,
\* T excepted, and posts nothing to any other port: not to T, not to a tab
\* registered only on another channel.
C15_BroadcastReachesOthers ==
  [][\A p \in Ports : Handles(p, BRIDGE_BROADCAST) =>
       LET m == Head(portIn[p])
           tabs == channels[m.channel].tabs
       IN /\ OnlyTo(posted', portsOf(tabs, TabIDs \ {m.tabID}), RelayOf(m))
          /\ posted'[p] = <<>>]_vars

\* A broadcast was relayed to another tab of the channel while a tab was
\* registered on another channel.
C15_Witness ==
  /\ handled.msg.action = BRIDGE_BROADCAST
  /\ \E q \in Ports : posted[q] # <<>>
  /\ \E c \in Channels \ {handled.msg.channel} : channels[c].exists /\ roster(channels[c].tabs) # {}

C17_EvictedGetsNothing ==
  \A q \in closedPorts : \A k \in 1..Len(posted[q]) :
    posted[q][k].action \notin {BRIDGE_RELAY, BRIDGE_STATE_UPDATE}

C17_Evicts ==
  \A p \in Ports : Handles(p, BRIDGE_HANDSHAKE) =>
    LET m == Head(portIn[p])
        old == channels[m.channel].tabs[m.tabID]
    IN old # NoPort =>
         /\ Len(posted'[old]) = 1
         /\ posted'[old][1].action = BRIDGE_HANDSHAKE_ERROR
         /\ posted'[old][1].code = DUPLICATE_TAB_ID
         /\ old \in closedPorts'
         /\ channels'[m.channel].tabs[m.tabID] = p
         /\ \A c \in Channels : \A t \in TabIDs : channels'[c].tabs[t] # old
         /\ Len(posted'[p]) = 1
         /\ posted'[p][1].action = BRIDGE_HANDSHAKE_ACK
         /\ posted'[p][1].tabID = m.tabID

C17_DuplicateEvictsOldHolder == [](C17_EvictedGetsNothing) /\ [][C17_Evicts]_vars

\* A holder was evicted, and afterwards a state update was fanned out on its
\* channel.
C17_Witness ==
  /\ handled.msg.action = BRIDGE_SET_STATE
  /\ \E q \in closedPorts : tabOptions[q].channel = handled.msg.channel
  /\ \E q \in Ports : posted[q] # <<>>

\* ---------------------------------------------------------------------- C18
\* C18: while a channel exists, its shared-state dictionary changes only in
\* the step that handles a BRIDGE_SET_STATE: no BRIDGE_HANDSHAKE on an existing
\* channel, for a new tab ID or for one in the roster, changes it.
C18_SeededOnce ==
  [][\A c \in Channels :
       (channels[c].exists /\ channels'[c].exists
          /\ channels'[c].sharedState # channels[c].sharedState)
         => \E p \in Ports : Handles(p, BRIDGE_SET_STATE)]_vars

\* ---------------------------------------------------------------------- C19
\* C19: when the relay handles BRIDGE_SET_STATE(C, key, value), C's dictionary
\* holds value under key after the step, and one BRIDGE_STATE_UPDATE(key,
\* value) is posted to every tab in C's roster, the sender included, and
\* nothing to any other port.
C19_SetStateFansOut ==
  [][\A p \in Ports : Handles(p, BRIDGE_SET_STATE) =>
       LET m == Head(portIn[p])
           update == BridgeMsg(BRIDGE_STATE_UPDATE, "", "", "", m.value, "")
       IN /\ channels'[m.channel].sharedState = m.value
          /\ OnlyTo(posted', portsOf(channels[m.channel].tabs, TabIDs), update)
          /\ posted'[p] = <<update>>]_vars

\* A state update was fanned out to two tabs of a channel while a tab was
\* registered on the other channel.
C19_Witness ==
  /\ handled.msg.action = BRIDGE_SET_STATE
  /\ Cardinality({q \in Ports : posted[q] # <<>>}) = 2
  /\ \E c \in Channels \ {handled.msg.channel} : channels[c].exists /\ roster(channels[c].tabs) # {}

\* ---------------------------------------------------------------------- C20
\* C20: after a tab on channel C wrote v to counter through its remote, every
\* tab registered on C, the writer included, reads v from
\* connection.remote.counter once all messages are handled, and from then on.
C20_AllTabsReadWrite ==
  <>[](\A p \in Ports :
         (Registered(p) /\ written[tabOptions[p].channel] # Absent)
           => remoteFn[p] = written[tabOptions[p].channel])

\* ---------------------------------------------------------------------- C23
\* The port is in the roster of some channel other than c and not in c's.
OnlyElsewhere(q, c) ==
  /\ q \notin portsOf(channels[c].tabs, TabIDs)
  /\ \E d \in Channels \ {c} : q \in portsOf(channels[d].tabs, TabIDs)

C24_ReadReturnsCache ==
  \A p \in Ports : tabState[p] = "connected" => remoteFn[p] = sharedStateCache[p]

\* ---------------------------------------------------------------------- C25
\* The step is tab p running inc as the effect of a BRIDGE_RELAY.
RelayRuns(p) ==
  /\ tabState[p] = "connected"
  /\ Received(p, BRIDGE_RELAY)
  /\ Head(portOut[p]).methodName = "inc"
  /\ portOut'[p] = Tail(portOut[p])
  /\ tabState'[p] = tabState[p]

\* The step is the application of tab p assigning connection.remote.counter.
AssignsRemote(p) == tabState[p] = "connected" /\ ops' # ops /\ remoteFn'[p] # remoteFn[p]

\* C25: every assignment to counter on a bridge remote, on the remote
\* returned by connect and on the remote a method is passed when it runs as
\* the effect of a relay, stores the value in the tab's cache and posts exactly
\* one BRIDGE_SET_STATE(channel, counter, value).
C25_AssignmentWritesThrough ==
  [][\A p \in Ports \ closedPorts :
       /\ RelayRuns(p) =>
            /\ sharedStateCache'[p] = Head(portOut[p]).value
            /\ portIn'[p] = Append(portIn[p], setState(p, Head(portOut[p]).value))
       /\ AssignsRemote(p) =>
            /\ sharedStateCache'[p] = remoteFn'[p]
            /\ portIn'[p] = Append(portIn[p], setState(p, remoteFn'[p]))]_vars

\* ---------------------------------------------------------------------- C26
\* The BRIDGE_BROADCAST messages of a queue.
broadcasts(queue) == SelectSeq(queue, LAMBDA m : m.action = BRIDGE_BROADCAST)

\* The messages tab p posts in the step.
sent(p) == SubSeq(portIn'[p], Len(portIn[p]) + 1, Len(portIn'[p]))

\* The step is the application of registered tab p calling a proxy of a
\* method that returns, and not one of connection.remote(targetTabID).
CallsInc(p, v) ==
  /\ Registered(p)
  /\ p \notin closedPorts
  /\ ops' # ops
  /\ runs'[p] # runs[p]
  /\ ~returned'[p].threw
  /\ written'[tabOptions[p].channel] = v
  /\ \A i \in 1..Len(sent(p)) : sent(p)[i].action # BRIDGE_DIRECT_MESSAGE

\* C26: a broadcast call inc(v) by a registered tab runs inc once on that tab,
\* posts exactly one BRIDGE_BROADCAST carrying the tab's ID, its channel, the
\* method name and v, and resolves to what inc returned there; the relay,
\* handling it, posts exactly one BRIDGE_RELAY to every other tab of the
\* roster, and a connected tab handling one BRIDGE_RELAY runs the method
\* exactly once.
C26_BroadcastRunsOnceEverywhere ==
  [][\A p \in Ports :
       /\ \A v \in WriteValues : CallsInc(p, v) =>
            /\ runs' = [runs EXCEPT ![p] = @ + 1]
            /\ broadcasts(sent(p)) = <<callPayload(p, BRIDGE_BROADCAST, "", "inc", v, NoError)>>
            /\ returned'[p].settled = "resolved"
            /\ returned'[p].result = v
       /\ Handles(p, BRIDGE_BROADCAST) =>
            LET payload == Head(portIn[p])
                tabs == channels[payload.channel].tabs
            IN \A t \in TabIDs :
                 (tabs[t] # NoPort /\ t # payload.tabID) =>
                   posted'[tabs[t]] = <<RelayOf(payload)>>
       /\ (tabState[p] = "connected" /\ tabState'[p] = "connected"
             /\ Received(p, BRIDGE_RELAY) /\ Len(portOut'[p]) < Len(portOut[p])) =>
            runs' = [runs EXCEPT ![p] = @ + 1]]_vars

\* A broadcast sent by a tab was relayed to the two other tabs of its channel,
\* and inc has run on all three.
C26_Witness ==
  /\ handled.msg.action = BRIDGE_BROADCAST
  /\ \A p \in Ports : runs[p] = 1 /\ Registered(p)
  /\ \E p \in Ports : returned[p].settled = "resolved" /\ returned[p].result \in WriteValues

\* ---------------------------------------------------------------------- C27
\* The step is the application of tab p calling a proxy whose local execution
\* throws.
Throws(p) ==
  /\ tabState[p] = "connected"
  /\ p \notin closedPorts
  /\ ops' # ops
  /\ runs'[p] # runs[p]
  /\ returned'[p].threw

\* C27: when the local execution of a broadcast or direct message call throws,
\* the tab still posts exactly one BRIDGE_BROADCAST or BRIDGE_DIRECT_MESSAGE,
\* with the serialized error, and the caller's promise is rejected.
C27_ThrowingCallRejects ==
  [][\A p \in Ports : Throws(p) =>
       /\ Len(sent(p)) = 1
       /\ sent(p)[1].action \in {BRIDGE_BROADCAST, BRIDGE_DIRECT_MESSAGE}
       /\ sent(p)[1].error = serialize(returned'[p].error)
       /\ returned'[p].settled = "rejected"]_vars

\* C28: a getConnectedTabs() call resolves with the roster the relay computed
\* in answer to its own BRIDGE_GET_TABS: no call is resolved with one roster
\* while the answer to its request, still to be dispatched, holds another.
C28_ResolvesWithOwnRoster ==
  \A p \in Ports :
    \A i \in 1..Len(tabsResolved[p]) :
      \A j \in 1..Len(portOut[p]) :
        (portOut[p][j].action = BRIDGE_TABS_RESPONSE /\ portOut[p][j].req = tabsResolved[p][i].call)
          => portOut[p][j].tabIDs = tabsResolved[p][i].tabIDs

\* ---------------------------------------------------------------------- C29
\* No connection is open, so that the only call an application can make is
\* close() on a connection closed before.
NoneConnected == \A q \in Ports : tabState[q] # "connected"

\* C29: close() on a connected tab posts one BRIDGE_DISCONNECT with its tab ID
\* and channel and closes the port; the relay, handling it, leaves the tab ID
\* out of the roster; nothing the relay posts runs on the closed tab or
\* reaches its cache; a second close() changes nothing, in the tab or in the
\* relay.
C29_CloseLeavesAndIsIdempotent ==
  [][\A p \in Ports :
       /\ (tabState[p] = "connected" /\ tabState'[p] = "closed" /\ p \notin closedPorts) =>
            /\ sent(p) = <<BridgeMsg(BRIDGE_DISCONNECT, tabOptions[p].tabID, tabOptions[p].channel,
                                     "", Absent, "")>>
            /\ portOut'[p] = <<>>
       /\ Handles(p, BRIDGE_DISCONNECT) =>
            Head(portIn[p]).tabID \notin roster(channels'[Head(portIn[p]).channel].tabs)
       /\ tabState[p] = "closed" =>
            /\ sharedStateCache'[p] = sharedStateCache[p]
            /\ remoteFn'[p] = remoteFn[p]
            /\ runs'[p] = runs[p]
            /\ portOut'[p] = <<>>
       /\ (NoneConnected /\ tabState[p] = "closed" /\ tabState' = tabState /\ ops' # ops) =>
            UNCHANGED <<tabOptions, tabVars, portIn, portOut, relayVars, written, callVars>>]_vars

\* A tab, the only one to have joined, closed its connection twice, and the
\* relay handled what it posted.
C29_Witness ==
  /\ ops = 0
  /\ \E p \in Ports : /\ tabState[p] = "closed"
                       /\ \A q \in Ports \ {p} : tabState[q] = "idle"
  /\ \A p \in Ports : runs[p] = 0 /\ tabsCalls[p] = <<>> /\ tabsResolved[p] = <<>> /\ portIn[p] = <<>>
  /\ handled.msg.action = BRIDGE_DISCONNECT
  /\ channels["c"] = NoChannel

\* ---------------------------------------------------------------------- C21
\* The ports of the live tabs in the roster of channel c.
live(c) == {q \in portsOf(channels[c].tabs, TabIDs) : tabState[q] = "connected" /\ q \notin closedPorts}

\* Every write to channel c has been handled by the relay, and every message
\* the relay posted to a live tab of c has been dispatched.
Delivered(c) ==
  /\ \A p \in Ports : \A i \in 1..Len(portIn[p]) :
       ~(portIn[p][i].action = BRIDGE_SET_STATE /\ portIn[p][i].channel = c)
  /\ \A q \in live(c) : portOut[q] = <<>>

\* C21: the BRIDGE_STATE_UPDATE of every BRIDGE_SET_STATE the relay handles
\* for a channel is put behind everything already posted to each tab of the
\* channel, and a tab dispatches what is posted to it from the front, so that
\* all tabs see the updates in the order the relay handled the writes; once
\* everything is delivered, the caches of the tabs of the channel hold the
\* value of the write handled last.
C21_UpdatesInRelayOrder ==
  /\ [](\A c \in Channels : Delivered(c) =>
          \A q \in live(c) : sharedStateCache[q] = channels[c].sharedState)
  /\ [][\A p \in Ports :
          /\ Handles(p, BRIDGE_SET_STATE) =>
               LET m == Head(portIn[p])
               IN /\ channels'[m.channel].sharedState = m.value
                  /\ \A q \in live(m.channel) :
                       portOut'[q] = Append(portOut[q],
                                            BridgeMsg(BRIDGE_STATE_UPDATE, "", "", "", m.value, ""))
          /\ (Received(p, BRIDGE_STATE_UPDATE) /\ Len(portOut'[p]) < Len(portOut[p])
                                             /\ tabState'[p] = tabState[p]) =>
               /\ portOut'[p] = Tail(portOut[p])
               /\ sharedStateCache'[p] = Head(portOut[p]).value]_vars

\* Two tabs wrote 5 and then 7 while both writes were in flight, the relay
\* handled the 7 first, and the three tabs of the channel ended with 5.
C21_Witness ==
  /\ Delivered("c")
  /\ live("c") = Ports
  /\ written["c"] = 7
  /\ channels["c"].sharedState = 5
  /\ \A q \in Ports : sharedStateCache[q] = 5

\* ---------------------------------------------------------------------- C30
\* C30: the handleResponse listeners subscribed on a side are those of calls
\* that are not settled yet and were made on a connection that has not been
\* closed: the listener of a call is unsubscribed by its first matching reply.
C30_ReplyHandlersOfOpenCallsOnly ==
  \A s \in Side :
    \A l \in listeners[s] :
      l.kind = "handleResponse" =>
        /\ l.callID \in DOMAIN calls
        /\ ~Settled(l.callID)
        /\ closed[s] = 0

\* C22: once every tab of a channel has left, by connection.close() or by its
\* page going away, and the relay has handled everything posted to it, the
\* relay holds neither the channel nor its dictionary.
C22_LastTabOutDropsChannel ==
  (\A p \in Ports : portIn[p] = <<>>) =>
    \A c \in Channels :
      (\A t \in roster(channels[c].tabs) : tabState[channels[c].tabs[t]] \in {"closed", "gone"})
        => channels[c] = NoChannel


\* ---------------------------------------------------------------------- C38
\* C38: no tab is posted a BRIDGE_RELAY whose senderTabID is its own tab ID,
\* whether the relay comes from a broadcast or from a direct message.
C38_NoRelayToSender ==
  \A p \in Ports :
    \A i \in 1..Len(portOut[p]) :
      portOut[p][i].action = BRIDGE_RELAY => portOut[p][i].tabID # tabOptions[p].tabID

\* ---------------------------------------------------------------------- C37
\* C37: every channel in the relay's channels map has at least one tab in
\* its roster.
C37_NoEmptyChannel ==
  \A c \in Channels : channels[c].exists => roster(channels[c].tabs) # {}


\* ---------------------------------------------------------------------- C32
\* C32: when the relay handles the BRIDGE_HANDSHAKE of a tab joining a channel
\* whose dictionary holds a value written by an earlier BRIDGE_SET_STATE, the
\* BRIDGE_HANDSHAKE_ACK posted to the tab carries that value, and the tab
\* reads it from its remote once the acknowledgement is dispatched.
C32_JoinerReadsLastWrite ==
  [][\A p \in Ports : Handles(p, BRIDGE_HANDSHAKE) =>
       LET c == Head(portIn[p]).channel
       IN (channels[c].exists /\ channels[c].sharedState \notin {Absent, Seed})
            => \E i \in 1..Len(posted'[p]) :
                 /\ posted'[p][i].action = BRIDGE_HANDSHAKE_ACK
                 /\ posted'[p][i].value = channels[c].sharedState]_vars


\* ---------------------------------------------------------------------- C39
\* The step is a call of the application of tab p on its connection: close(),
\* a broadcast, a direct message, a shared-state write or getConnectedTabs().
Acts(p) ==
  \/ TabClose(p)
  \/ TabGetTabs(p)
  \/ \E v \in WriteValues \cup SyncValues :
       \/ TabCallInc(p, v)
       \/ TabWriteCounter(p, v)
       \/ \E t \in TabIDs : TabCallIncOn(p, t, v)
       \/ \E e \in Thrown : TabCallFail(p, v, e) \/ \E t \in TabIDs : TabCallFailOn(p, t, v, e)

\* C39: once the relay closed the port of a tab (its tab ID was registered
\* again), nothing is queued from that port, so the relay handles no message of
\* the evicted client; and a call of the evicted client on its connection
\* posts nothing to the relay, leaves every roster and dictionary as they are
\* and puts nothing in the queue of another tab.
C39_NothingFromEvicted == \A p \in closedPorts : portIn[p] = <<>>

C39_EvictedActs ==
  \A p \in closedPorts : Acts(p) =>
    /\ portIn' = portIn
    /\ UNCHANGED <<channels, closedPorts, posted, handled>>
    /\ \A q \in Ports \ {p} : portOut'[q] = portOut[q]

C39_EvictedIsMute == [](C39_NothingFromEvicted) /\ [][C39_EvictedActs]_vars

\* An evicted client wrote the counter through its remote after the eviction
\* (no registered tab wrote), and the new holder of its ID is in the roster.
C39_Witness ==
  \E p \in closedPorts :
    /\ sharedStateCache[p] \in WriteValues \cup SyncValues
    /\ written[tabOptions[p].channel] = Absent
    /\ channels[tabOptions[p].channel].tabs[tabOptions[p].tabID] \notin {p, NoPort}


\* ---------------------------------------------------------------------- C34
\* The step is tab p dispatching the BRIDGE_RELAY at the head of its queue.
DispatchesRelay(p) ==
  /\ Received(p, BRIDGE_RELAY)
  /\ tabState[p] = "connected"
  /\ tabState' = tabState
  /\ Len(portOut'[p]) < Len(portOut[p])

\* C34: a tab that dispatches a BRIDGE_RELAY runs its method of that name
\* once, with the relayed argument and its remote (inc assigns the argument
\* to the counter of the remote), and runs nothing when it has no method of
\* that name; whether the method is missing, throws or returns, the step
\* posts nothing to the relay, changes nothing of the relay or of another
\* tab, and leaves the rest of the tab's queue in place behind a handler still
\* installed, so that the messages behind it are dispatched as before.
C34_RelayRunsAndSwallows ==
  [][\A p \in Ports : DispatchesRelay(p) =>
       LET payload == Head(portOut[p])
       IN /\ runs'[p] = IF payload.methodName \in Methods THEN runs[p] + 1 ELSE runs[p]
          /\ remoteFn'[p] = IF payload.methodName = "inc" THEN payload.value ELSE remoteFn[p]
          /\ portIn' = portIn
          /\ UNCHANGED <<relayVars, posted, handled, returned>>
          /\ portOut' = [portOut EXCEPT ![p] = Tail(@)]]_vars

\* A tab dispatched the relay of a method it does not have: the caller of
\* log ran it and the relay posted its BRIDGE_RELAY to the other tab of the
\* channel, which ran nothing.
C34_Witness ==
  \E p, q \in Ports :
    /\ p # q
    /\ Registered(p) /\ Registered(q)
    /\ tabOptions[p].channel = tabOptions[q].channel
    /\ handled.msg.action = BRIDGE_BROADCAST
    /\ handled.msg.methodName = "log"
    /\ handled.port = q
    /\ posted[p] # <<>>
    /\ portOut[p] = <<>>
    /\ runs[p] = 0


\* ---------------------------------------------------------------------- C33
\* The ports on which the postMessage of the step threw.
threwOn == {q \in Ports : \E i \in 1..Len(posted'[q]) : posted'[q][i].code = "DataCloneError"}

\* The message was posted to every port of `recipients` on which postMessage
\* did not throw, and queued there unless the tab is gone; the queues of the
\* ports on which it threw, and of all other ports, are as before.
SentToTheRest(recipients, msg) ==
  \A q \in Ports :
    /\ q \in recipients \ threwOn => posted'[q] = <<msg>>
    /\ q \notin recipients => posted'[q] = <<>>
    /\ portOut'[q] = IF q \in recipients \ (threwOn \cup shut) THEN Append(portOut[q], msg)
                     ELSE portOut[q]

\* C33: when the relay handles a BRIDGE_BROADCAST or a BRIDGE_SET_STATE and
\* postMessage throws for some of the tabs, the message is still posted to
\* every other tab the fan-out is for, and the rosters and the dictionaries
\* after the step are what they are when nothing throws: unchanged for a
\* broadcast, the written value stored for a state update.
C33_FanOutSurvivesThrow ==
  [][\A p \in Ports :
       /\ Handles(p, BRIDGE_BROADCAST) =>
            LET m == Head(portIn[p])
                tabs == channels[m.channel].tabs
            IN /\ channels' = channels
               /\ closedPorts' = closedPorts
               /\ SentToTheRest(portsOf(tabs, roster(tabs) \ {m.tabID}), RelayOf(m))
       /\ Handles(p, BRIDGE_SET_STATE) =>
            LET m == Head(portIn[p])
                tabs == channels[m.channel].tabs
            IN /\ channels' = [channels EXCEPT ![m.channel] =
                                 [exists |-> TRUE, tabs |-> tabs, sharedState |-> m.value]]
               /\ closedPorts' = closedPorts
               /\ SentToTheRest(portsOf(tabs, roster(tabs)),
                                BridgeMsg(BRIDGE_STATE_UPDATE, "", "", "", m.value, ""))]_vars

\* A fan-out to two tabs threw for one of them, and the other was posted the
\* message.
C33_Witness ==
  \E q, r \in Ports :
    /\ posted[q] # <<>> /\ posted[q][1].code = "DataCloneError"
    /\ posted[r] # <<>> /\ posted[r][1].code # "DataCloneError"
    /\ portOut[r] # <<>> /\ portOut[r][Len(portOut[r])] = posted[r][1]


\* ---------------------------------------------------------------------- C36
\* C36: the step that runs extractMethods on a schema yields a map that
\* holds, for every function leaf of the schema, that function under the
\* dot-joined path of the leaf, and nothing else; it removes the function
\* leaves from the schema and leaves the other leaves in place and in order;
\* the empty schema gives the empty map.
C36_EveryFunctionUnderItsPath ==
  [][(~schWire.sent /\ schWire'.sent) =>
       /\ \A i \in 1..Len(schLocal) :
            schLocal[i].kind = "fn"
              => [name |-> join(schLocal[i].path), fn |-> schLocal[i].path] \in schMethods'
       /\ \A m \in schMethods' : \E i \in 1..Len(schLocal) :
            schLocal[i].kind = "fn" /\ schLocal[i].path = m.fn /\ join(m.fn) = m.name
       /\ schLocal' = SelectSeq(schLocal, LAMBDA e : e.kind = "data")
       /\ (schLocal = <<>> => schMethods' = {})]_vars


\* ---------------------------------------------------------------------- C35
\* C35: when handleCall has posted the reply of a method whose result was
\* built with withTransferable, the transfer list of the postMessage call is
\* the sequence of the objects the callback passed to transfer, in call order,
\* the result holds what the transfer calls returned, the objects themselves,
\* and the result in the reply has no marker; the reply of a method that
\* returned a plain value has no transfer list.
C35_TransferListInCallOrder ==
  xferStage = "replied" =>
    /\ xferReply.action = RPC_RESOLVE
    /\ xferReply.result.marker = NoMarker
    /\ IF xferPlan.with
       THEN /\ xferReply.transfer = [given |-> TRUE, list |-> xferPlan.passes]
            /\ xferReply.result.holds = xferPlan.passes
       ELSE /\ xferReply.transfer = NoTransfer
            /\ xferReply.result = Result(xferPlan.plain, <<>>, NoMarker)

\* The reply of a result built by a callback that passed two different
\* objects to transfer has been posted.
C35_Witness ==
  /\ xferStage = "replied"
  /\ xferPlan.with
  /\ Len(xferPlan.passes) = 2
  /\ xferPlan.passes[1] # xferPlan.passes[2]
  /\ xferReply.transfer.given


\* ---------------------------------------------------------------------- C40
\* C40: no two connect calls of the host accepted the HANDSHAKE_REQUEST of
\* the same guest (a guest posts one), and the promise of a connect call was
\* resolved, if at all, by a message from the guest the call was given.
C40_OneRequestOneConnect ==
  /\ \A k, j \in Connects : (k # j /\ hubAccepted[k] # NoGuest) => hubAccepted[k] # hubAccepted[j]
  /\ \A k \in Connects : hubResolved[k] \in {NoGuest, hubCfg.guestOf[k]}

\* ---------------------------------------------------------------------- C31
\* The connect calls share their listening endpoint.
SharedEndpoint == \A k, j \in Connects : hubListenTo(k) = hubListenTo(j)

\* C31: the host's handleCall of a connection runs its method only for an
\* RPC_REQUEST that carries the ID of that connection, and a call of the host
\* is settled only by a reply that carries the ID of the connection the call
\* was made on; closing a connection removes its own entry from the
\* connections map and leaves the listeners of every other connect call
\* subscribed.
C31_Routed ==
  /\ \A r \in hubRan : r.k = r.connectionID
  /\ \A c \in hubCalls : c.settled => c.by = c.k

C31_CloseLeavesOthers ==
  \A k \in Connects :
    (k \in hubConnections /\ k \notin hubConnections') =>
      /\ hubConnections' = hubConnections \ {k}
      /\ \A l \in hubListeners : l.k # k => l \in hubListeners'

C31_RoutedByConnectionID == [](C31_Routed) /\ [][C31_CloseLeavesOthers]_vars

\* Two connections live on one listening endpoint each served a request of
\* its guest, and one of them was then closed.
C31_Witness ==
  /\ SharedEndpoint
  /\ \A k \in Connects : \E r \in hubRan : r.k = k
  /\ Cardinality(hubConnections) = 1
  /\ \A k \in Connects : hubResolved[k] # NoGuest

====
